---- MODULE Spec2Model ----
(***************************************************************************)
(* netbox-dnsverify: reconciliation of a NetBox DNS inventory with the     *)
(* answers of the authoritative name servers.                              *)
(*                                                                         *)
(* Strings on which the code performs string operations (suffix tests,     *)
(* concatenation, trimming, case folding) are sequences of tokens, e.g.    *)
(* "host.example.com." is <<"host", ".", "example", ".", "com", ".">>.     *)
(* The empty string is <<>>.                                               *)
(***************************************************************************)
EXTENDS Integers, Sequences, FiniteSets, Bags, TLC

VARIABLES
    \* validateRecordsForFQDN, one call (specification SpecFQDN)
    fKey, fRecords, fServers, fRecordSuccessful, fPc, fIdx,
    fAnswers, fDiscrepancies, fSuccessful

fqdnVars == <<fKey, fRecords, fServers, fRecordSuccessful, fPc, fIdx,
              fAnswers, fDiscrepancies, fSuccessful>>

VARIABLES
    \* main, the per-record and the SOA path (specification Spec)
    records, soaValidationMode, zoneFilter, viewFilter, recordSuccessful,
    ignoreSerialNumbers, mainPc, tasks, discrepanciesChan, successfulChan,
    discrepancies, successfulValidations, queries

runVars == <<records, soaValidationMode, zoneFilter, viewFilter, recordSuccessful,
             ignoreSerialNumbers, mainPc, tasks, discrepanciesChan, successfulChan,
             discrepancies, successfulValidations, queries>>

VARIABLES
    \* validateAllRecords of the revision that derives PTR validations from A
    \* records (specification SpecPTR)
    ptrRecords, validatedPTRs, ptrTasks, ptrChan, ptrCalls, ptrMain, ptrDiscrepancies

ptrVars == <<ptrRecords, validatedPTRs, ptrTasks, ptrChan, ptrCalls, ptrMain,
             ptrDiscrepancies>>

VARIABLES
    \* validateAllRecordsAXFR, the bulk path (specification SpecAXFR)
    axRecords, axZoneFilter, axRecordSuccessful, axTsigKeyFile, tsigKey, axMain, axTasks,
    axDiscrepanciesChan, axSuccessfulChan, axMissingChan,
    axDiscrepancies, axSuccessful, axMissing

axfrVars == <<axRecords, axZoneFilter, axRecordSuccessful, axTsigKeyFile, tsigKey, axMain,
              axTasks,
              axDiscrepanciesChan, axSuccessfulChan, axMissingChan,
              axDiscrepancies, axSuccessful, axMissing>>

VARIABLES
    \* generateNSUpdateScripts (specification SpecScript)
    scDiscrepancies, scCreateFails, scPc, recordDiscrepancies, ttlDiscrepancies, scFiles

scriptVars == <<scDiscrepancies, scCreateFails, scPc, recordDiscrepancies,
                ttlDiscrepancies, scFiles>>

VARIABLES
    \* one call of a comparison or conversion function (specification SpecCall)
    callFn, callArgs, callResult

callVars == <<callFn, callArgs, callResult>>

VARIABLES
    \* main's flags use-axfr and validate-soa (specification SpecMain)
    useAXFR, validateSOA

flagVars == <<useAXFR, validateSOA>>

VARIABLES
    \* queryDNSWithRetry, one call attempt by attempt (specification SpecRetry)
    qRevision, qAttempts, qAttempt, qExchanges, qResp, qSleeps, qPc

retryVars == <<qRevision, qAttempts, qAttempt, qExchanges, qResp, qSleeps, qPc>>

vars == <<fqdnVars, runVars, ptrVars, axfrVars, scriptVars, callVars, flagVars, retryVars>>

\* what the actions of one specification leave alone
notFqdnVars ==
    <<runVars, ptrVars, axfrVars, scriptVars, callVars, flagVars, retryVars>>
notRunVars ==
    <<fqdnVars, ptrVars, axfrVars, scriptVars, callVars, flagVars, retryVars>>
notPtrVars ==
    <<fqdnVars, runVars, axfrVars, scriptVars, callVars, flagVars, retryVars>>
notAxfrVars ==
    <<fqdnVars, runVars, ptrVars, scriptVars, callVars, flagVars, retryVars>>
notScriptVars ==
    <<fqdnVars, runVars, ptrVars, axfrVars, callVars, flagVars, retryVars>>
notRetryVars == <<fqdnVars, runVars, ptrVars, axfrVars, scriptVars, callVars, flagVars>>
notCallVars ==
    <<fqdnVars, runVars, ptrVars, axfrVars, scriptVars, flagVars, retryVars>>

(***************************************************************************)
(* Bounds of the model.                                                    *)
(***************************************************************************)
MaxRecords == 2      \* inventory records of one run
MaxAnswerLen == 2    \* resource records in one answer section

(***************************************************************************)
(* Program constants.                                                      *)
(***************************************************************************)
Retries == 3         \* queryDNSWithRetry(..., 3)

(***************************************************************************)
(* String helpers.                                                         *)
(***************************************************************************)
EmptyString == <<>>

\* strings.HasSuffix(v, ".")
HasSuffixDot(v) == Len(v) > 0 /\ v[Len(v)] = "."

\* strings.TrimRight(z, ".")
RECURSIVE TrimRightDot(_)
TrimRightDot(z) ==
    IF Len(z) > 0 /\ z[Len(z)] = "." THEN TrimRightDot(SubSeq(z, 1, Len(z) - 1))
    ELSE z

\* the lower-case form of a token
ToLowerToken(tok) ==
    CASE tok = "WWW" -> "www"
      [] tok = "EXAMPLE" -> "example"
      [] tok = "HOST" -> "host"
      [] OTHER -> tok

\* strings.EqualFold
EqualFold(a, b) ==
    /\ Len(a) = Len(b)
    /\ \A i \in 1..Len(a) : ToLowerToken(a[i]) = ToLowerToken(b[i])

\* strings.ToUpper on a record type
ToUpper(t) ==
    CASE t = "a" -> "A"
      [] t = "cname" -> "CNAME"
      [] t = "soa" -> "SOA"
      [] OTHER -> t

\* a type table that also knows "BOGUS"
KnownTypes_WithBogus == {"A", "AAAA", "CNAME", "NS", "PTR", "TXT", "MX", "SOA", "BOGUS"}

\* dns.StringToType: the record types the DNS library knows (the ones the
\* inventory of the model uses; "BOGUS" is not among them)
KnownTypes == {"A", "AAAA", "CNAME", "NS", "PTR", "TXT", "MX", "SOA"}

(***************************************************************************)
(* The external snapshots: zones, nameserver inventory, record inventory.  *)
(***************************************************************************)
ExampleCom == <<"example", ".", "com">>
CorpTest == <<"corp", ".", "test", ".">>    \* a zone named with its root dot
LabTest == <<"lab", ".", "test">>
OrphanTest == <<"orphan", ".", "test">>
\* a child zone of corp.test., delegated to servers outside the inventory
SubCorpTest == <<"sub", ".", "corp", ".", "test", ".">>

Fqdn(label, zone) == <<label, ".">> \o TrimRightDot(zone) \o <<".">>
Apex(zone) == TrimRightDot(zone) \o <<".">>

\* zonesByName: zone name -> Zone (SoaTTL, DefaultTTL)
ZoneNames == {ExampleCom, CorpTest, SubCorpTest}
zonesByName(z) ==
    CASE z = ExampleCom -> [SoaTTL |-> 900, DefaultTTL |-> 300]
      [] z = CorpTest -> [SoaTTL |-> 0, DefaultTTL |-> 300]
      [] z = SubCorpTest -> [SoaTTL |-> 0, DefaultTTL |-> 300]

\* A zone entry of a Nameserver: View is a pointer, nil for LabTest on ns3.
NsZone(name, hasView, view) == [Name |-> name, ViewNil |-> ~hasView, ViewName |-> view]

nameservers ==
    << [Name |-> "ns1", Zones |-> <<NsZone(ExampleCom, TRUE, "default"),
                                    NsZone(CorpTest, TRUE, "internal")>>],
       [Name |-> "ns2", Zones |-> <<NsZone(CorpTest, TRUE, "internal")>>],
       [Name |-> "ns3", Zones |-> <<NsZone(LabTest, FALSE, "")>>] >>

\* main: the unique names of the nameserver inventory
servers == <<"ns1", "ns2", "ns3">>

Rec(id, type, name, fqdn, value, ttl, zone, view, zttl) ==
    [ID |-> id, Type |-> type, Name |-> name, FQDN |-> fqdn, Value |-> value,
     TTL |-> ttl, ZoneName |-> zone, ViewName |-> view, ZoneDefaultTTL |-> zttl]

\* The records an inventory of the model is drawn from.  TTL 0 is "no
\* explicit TTL" (nil pointer).
InventoryRecords ==
    << Rec(1, "A", "www", Fqdn("www", ExampleCom), <<"192.0.2.10">>, 0,
           ExampleCom, "default", 300),
       Rec(2, "a", "www", Fqdn("www", ExampleCom), <<"192.0.2.2">>, 600,
           ExampleCom, "default", 300),
       Rec(3, "CNAME", "alias", Fqdn("alias", ExampleCom), <<"host">>, 0,
           ExampleCom, "default", 300),
       Rec(4, "NS", "@", Apex(ExampleCom), Fqdn("ns1", ExampleCom), 0,
           ExampleCom, "default", 300),
       Rec(5, "TXT", "info", Fqdn("info", ExampleCom), <<"hello">>, 0,
           ExampleCom, "default", 300),
       Rec(6, "BOGUS", "odd", Fqdn("odd", ExampleCom), <<"x">>, 0,
           ExampleCom, "default", 300),
       Rec(7, "A", "app", Fqdn("app", CorpTest), <<"192.0.2.10">>, 0,
           CorpTest, "internal", 300),
       Rec(8, "A", "free", Fqdn("free", OrphanTest), <<"192.0.2.10">>, 0,
           OrphanTest, "default", 300),
       Rec(9, "BOGUS", "noinfo", Fqdn("noinfo", LabTest), <<"x">>, 0,
           EmptyString, "", 0),
       Rec(10, "SOA", "@", Apex(ExampleCom),
           <<"ns1", " ", "admin", " ", "1", " ", "2", " ", "3", " ", "4", " ", "5">>,
           0, ExampleCom, "default", 300),
       Rec(11, "soa", "@", Apex(OrphanTest),
           <<"ns1", " ", "admin", " ", "1", " ", "2", " ", "3", " ", "4", " ", "5">>,
           0, OrphanTest, "default", 300),
       Rec(12, "SOA", "@", Apex(CorpTest),
           <<"ns1", " ", "admin", " ", "1">>,
           600, CorpTest, "internal", 300),
       Rec(13, "SOA", "@", Apex(LabTest),
           <<"ns1", " ", "admin", " ", "1", " ", "2", " ", "3", " ", "4", " ", "5">>,
           0, LabTest, "", 300) >>

\* The inventories of the model: the lists of at most MaxRecords distinct
\* records of InventoryRecords, in any order.
RECURSIVE SeqsUpTo(_, _)
SeqsUpTo(S, n) ==
    IF n = 0 THEN {<<>>}
    ELSE LET shorter == SeqsUpTo(S, n - 1)
         IN shorter \cup {Append(s, x) : s \in {t \in shorter : Len(t) = n - 1}, x \in S}

NoRepeat(s) == \A i, j \in 1..Len(s) : i # j => s[i] # s[j]

Inventories ==
    {[i \in 1..Len(ix) |-> InventoryRecords[ix[i]]] :
        ix \in {s \in SeqsUpTo(1..Len(InventoryRecords), MaxRecords) : NoRepeat(s)}}

(***************************************************************************)
(* Result types (common.go).  Expected and Actual are interface{} values:  *)
(* nil, a []string, a plain string (bulk path) or an SOARecord.  A payload *)
(* is [kind, v] with v a list of strings in every case.                    *)
(***************************************************************************)
NilPayload == [kind |-> "nil", v |-> <<>>]
ListPayload(values) == [kind |-> "list", v |-> values]
StringPayload(value) == [kind |-> "string", v |-> <<value>>]

RecordKey(fqdn, type, zone, view) ==
    [FQDN |-> fqdn, RecordType |-> type, ZoneName |-> zone, ViewName |-> view]

Discrepancy(fqdn, type, zone, expected, actual, ettl, attl, server, msg) ==
    [FQDN |-> fqdn, RecordType |-> type, ZoneName |-> zone, Expected |-> expected,
     Actual |-> actual, ExpectedTTL |-> ettl, ActualTTL |-> attl, Server |-> server,
     Message |-> msg]

\* ValidationRecord has the fields of Discrepancy
ValidationRecord(fqdn, type, zone, expected, actual, ettl, attl, server, msg) ==
    Discrepancy(fqdn, type, zone, expected, actual, ettl, attl, server, msg)

(***************************************************************************)
(* Authority resolution (validateAllRecords, validateSOARecords).          *)
(***************************************************************************)
RECURSIVE NsZoneMatches(_, _, _, _)
\* the names appended for one nameserver: one per zone entry with a view
\* whose "zone|view" key is the one looked up
NsZoneMatches(ns, zone, view, i) ==
    IF i > Len(ns.Zones) THEN <<>>
    ELSE (IF ~ns.Zones[i].ViewNil /\ ns.Zones[i].Name = zone /\ ns.Zones[i].ViewName = view
          THEN <<ns.Name>> ELSE <<>>) \o NsZoneMatches(ns, zone, view, i + 1)

RECURSIVE ZoneViewLookup(_, _, _)
ZoneViewLookup(zone, view, n) ==
    IF n > Len(nameservers) THEN <<>>
    ELSE NsZoneMatches(nameservers[n], zone, view, 1) \o ZoneViewLookup(zone, view, n + 1)

\* zoneViewToNameservers[zone|view]
zoneViewToNameservers(zone, view) == ZoneViewLookup(zone, view, 1)

\* a resolution that falls back to every server of the run
RecordServers_AllServers(key) ==
    IF key.ZoneName # EmptyString /\ key.ViewName # ""
       /\ Len(zoneViewToNameservers(key.ZoneName, key.ViewName)) > 0
    THEN zoneViewToNameservers(key.ZoneName, key.ViewName)
    ELSE servers

\* the servers a unit is validated against; <<>> when the unit is skipped
RecordServers(key) ==
    IF key.ZoneName # EmptyString /\ key.ViewName # ""
    THEN zoneViewToNameservers(key.ZoneName, key.ViewName)
    ELSE <<>>

(***************************************************************************)
(* Expected state of a unit (validateRecordsForFQDN, first loop).          *)
(***************************************************************************)
\* a qualification without the test for the root label
QualifyValue_Always(recordType, value, zoneName) ==
    IF recordType = "CNAME"
    THEN IF TrimRightDot(zoneName) # EmptyString
         THEN value \o <<".">> \o TrimRightDot(zoneName) \o <<".">>
         ELSE value \o <<".">>
    ELSE value

\* the CNAME qualification of one inventory value
QualifyValue(recordType, value, zoneName) ==
    IF recordType = "CNAME" /\ ~HasSuffixDot(value)
    THEN IF TrimRightDot(zoneName) # EmptyString
         THEN value \o <<".">> \o TrimRightDot(zoneName) \o <<".">>
         ELSE value \o <<".">>
    ELSE value

ExpectedValues(key, recs) ==
    [i \in 1..Len(recs) |->
        QualifyValue(key.RecordType, recs[i].Value, recs[i].ZoneName)]

\* a resolution that takes the zone default TTL before the zone's SOA TTL
RecordTTL_DefaultFirst(key, record) ==
    IF record.TTL > 0 THEN record.TTL
    ELSE IF record.ZoneDefaultTTL > 0 THEN record.ZoneDefaultTTL
         ELSE IF key.RecordType = "NS" /\ record.Name = "@" /\ key.ZoneName \in ZoneNames
              THEN zonesByName(key.ZoneName).SoaTTL
              ELSE record.ZoneDefaultTTL

\* the TTL one grouped record resolves to
RecordTTL(key, record) ==
    IF record.TTL > 0 THEN record.TTL
    ELSE IF key.RecordType = "NS" /\ record.Name = "@"
         THEN IF key.ZoneName \in ZoneNames
              THEN IF zonesByName(key.ZoneName).SoaTTL > 0
                   THEN zonesByName(key.ZoneName).SoaTTL
                   ELSE record.ZoneDefaultTTL
              ELSE record.ZoneDefaultTTL
         ELSE record.ZoneDefaultTTL

RECURSIVE ExpectedTTLFrom(_, _, _, _)
ExpectedTTLFrom(key, recs, i, expectedTTL) ==
    IF i > Len(recs) THEN expectedTTL
    ELSE ExpectedTTLFrom(key, recs, i + 1,
            IF expectedTTL = 0 THEN RecordTTL(key, recs[i]) ELSE expectedTTL)

ExpectedTTL(key, recs) == ExpectedTTLFrom(key, recs, 1, 0)

(***************************************************************************)
(* The DNS query gateway (dnsutils.go, the revision with performAXFR that  *)
(* validator.go is built with).  An attempt is what client.Exchange        *)
(* returns: [err, respNil, rcode, answer].  Exchange reports an error for  *)
(* transport failures and unparsable packets, never for a response code.   *)
(***************************************************************************)
AttemptTimeout == [err |-> TRUE, respNil |-> TRUE, rcode |-> "", answer |-> <<>>]
\* a packet with response code NXDOMAIN that failed to unpack: Exchange
\* returns the message and the error
AttemptMalformedNX == [err |-> TRUE, respNil |-> FALSE, rcode |-> "NXDOMAIN", answer |-> <<>>]
Reply(rcode, answer) == [err |-> FALSE, respNil |-> FALSE, rcode |-> rcode, answer |-> answer]

RECURSIVE QueryLoop(_, _, _, _)
QueryLoop(attempts, i, retries, last) ==
    IF i > retries THEN [last EXCEPT !.err = TRUE]
    ELSE IF ~attempts[i].err THEN attempts[i]
         ELSE QueryLoop(attempts, i + 1, retries, attempts[i])

\* queryDNSWithRetry(fqdn, qtype, server, retries): attempts[i] is the
\* outcome of the i-th Exchange; the result is (resp, err)
queryDNSWithRetry(attempts, retries) ==
    QueryLoop(attempts, 1, retries, AttemptTimeout)

\* The resource records a server of the model may hold for a query type.
RR(kind, value, ttl) == [kind |-> kind, value |-> value, ttl |-> ttl]

AnswerRRs(qtype) ==
    CASE qtype = "A" ->
            {RR("A", <<v>>, t) : v \in {"192.0.2.10", "192.0.2.2"}, t \in {300, 600}}
      [] qtype = "CNAME" ->
            {RR("CNAME", Fqdn("host", ExampleCom), 300),
             RR("CNAME", Fqdn("host", ExampleCom), 600),
             RR("CNAME", Fqdn("other", ExampleCom), 300)}
      [] qtype = "NS" ->
            {RR("NS", Fqdn("ns1", ExampleCom), 900), RR("NS", Fqdn("ns1", ExampleCom), 300)}
      [] qtype = "TXT" -> {RR("TXT", <<"hello">>, 300)}
      [] OTHER -> {}

Answers(qtype) ==
    {a \in SeqsUpTo(AnswerRRs(qtype), MaxAnswerLen) : Len(a) > 0 /\ NoRepeat(a)}

Replies(qtype) ==
    {Reply("NXDOMAIN", <<>>), Reply("NOERROR", <<>>)}
        \cup {Reply("NOERROR", a) : a \in Answers(qtype)}

\* what the Retries exchanges with one server may return: the server's reply,
\* a timeout or an unparsable NXDOMAIN packet, in any order
AttemptSeqs(qtype) ==
    UNION {[1..Retries -> {AttemptTimeout, AttemptMalformedNX, r}] : r \in Replies(qtype)}

(***************************************************************************)
(* Actual state of a server (validateRecordsForFQDN, answer loop).         *)
(***************************************************************************)
\* the record kinds of the type switch; every other kind hits `continue`
ExtractedKinds == {"A", "AAAA", "CNAME", "NS", "PTR"}

RECURSIVE ReduceAnswer(_, _, _, _)
\* (actualValues, actualTTL) after the loop over resp.Answer
ReduceAnswer(answer, i, actualValues, actualTTL) ==
    IF i > Len(answer) THEN [values |-> actualValues, ttl |-> actualTTL]
    ELSE IF answer[i].kind \in ExtractedKinds
         THEN ReduceAnswer(answer, i + 1, Append(actualValues, answer[i].value),
                           IF actualTTL = 0 THEN answer[i].ttl ELSE actualTTL)
         ELSE ReduceAnswer(answer, i + 1, actualValues, actualTTL)

RECURSIVE CountIn(_, _)
\* aMap[val] after `for _, val := range a { aMap[val]++ }`
CountIn(a, val) ==
    IF Len(a) = 0 THEN 0
    ELSE (IF a[1] = val THEN 1 ELSE 0) + CountIn(Tail(a), val)

RECURSIVE ConsumeAll(_, _, _)
\* the loop over b: aMap is a function on the values of a; a value of b that
\* is absent or used up ends the comparison
ConsumeAll(aMap, b, i) ==
    IF i > Len(b) THEN \A val \in DOMAIN aMap : aMap[val] = 0
    ELSE IF b[i] \notin DOMAIN aMap \/ aMap[b[i]] = 0 THEN FALSE
         ELSE ConsumeAll([aMap EXCEPT ![b[i]] = @ - 1], b, i + 1)

\* a comparison that takes the order into account
stringSlicesEqualUnordered_Ordered(a, b) == a = b

\* stringSlicesEqualUnordered(a, b)
stringSlicesEqualUnordered(a, b) ==
    IF Len(a) # Len(b) THEN FALSE
    ELSE ConsumeAll([val \in {a[i] : i \in 1..Len(a)} |-> CountIn(a, val)], b, 1)

\* One iteration of the server loop of validateRecordsForFQDN: what the
\* result (resp, err) of queryDNSWithRetry appends to the two result lists.
ValidateServer(key, expectedValues, expectedTTL, server, qr, recSucc) ==
    IF qr.err
    THEN IF ~qr.respNil /\ qr.rcode = "NXDOMAIN"
         THEN [disc |-> <<Discrepancy(key.FQDN, key.RecordType, key.ZoneName,
                             ListPayload(expectedValues), ListPayload(<<>>),
                             expectedTTL, 0, server, "Record missing (NXDOMAIN)")>>,
               succ |-> <<>>]
         ELSE [disc |-> <<Discrepancy(key.FQDN, key.RecordType, key.ZoneName,
                             ListPayload(expectedValues), NilPayload,
                             0, 0, server, "DNS query error")>>,
               succ |-> <<>>]
    ELSE IF Len(qr.answer) = 0
    THEN [disc |-> <<Discrepancy(key.FQDN, key.RecordType, key.ZoneName,
                        ListPayload(expectedValues), ListPayload(<<>>),
                        expectedTTL, 0, server, "Record missing")>>,
          succ |-> <<>>]
    ELSE LET actual == ReduceAnswer(qr.answer, 1, <<>>, 0)
             ttlMismatch == expectedTTL # actual.ttl
         IN IF ~stringSlicesEqualUnordered(expectedValues, actual.values) \/ ttlMismatch
            THEN [disc |-> <<Discrepancy(key.FQDN, key.RecordType, key.ZoneName,
                                ListPayload(expectedValues), ListPayload(actual.values),
                                expectedTTL, actual.ttl, server, "")>>,
                  succ |-> <<>>]
            ELSE [disc |-> <<>>,
                  succ |-> IF recSucc
                           THEN <<ValidationRecord(key.FQDN, key.RecordType, key.ZoneName,
                                     ListPayload(expectedValues), ListPayload(actual.values),
                                     expectedTTL, actual.ttl, server,
                                     "Record validated successfully")>>
                           ELSE <<>>]

\* the Discrepancy of the unknown-type short circuit
UnknownTypeDiscrepancy(key, expectedValues) ==
    Discrepancy(key.FQDN, key.RecordType, key.ZoneName, ListPayload(expectedValues),
                NilPayload, 0, 0, "", "Unknown record type")

(***************************************************************************)
(* Record grouping (validateAllRecords, lines 45-67).                      *)
(***************************************************************************)
KeyOf(record) ==
    RecordKey(record.FQDN, ToUpper(record.Type), record.ZoneName, record.ViewName)

\* whether a record enters expectedRecords under the two filters
Grouped(record, zf, vf) ==
    /\ ToUpper(record.Type) # "SOA"
    /\ ~(zf # EmptyString /\ record.ZoneName # zf)
    /\ ~(vf # "" /\ record.ViewName # vf)

RECURSIVE GroupOf(_, _, _, _)
\* expectedRecords[key]: the matching records in inventory order
GroupOf(recs, key, zf, vf) ==
    IF Len(recs) = 0 THEN <<>>
    ELSE (IF Grouped(recs[1], zf, vf) /\ KeyOf(recs[1]) = key
          THEN <<recs[1]>> ELSE <<>>)
         \o GroupOf(Tail(recs), key, zf, vf)

GroupKeys(recs, zf, vf) ==
    {KeyOf(recs[i]) : i \in {j \in 1..Len(recs) :
                                    Grouped(recs[j], zf, vf)}}

(***************************************************************************)
(* SpecFQDN: one call of validateRecordsForFQDN, server by server.         *)
(***************************************************************************)
\* the variables of one call of validateRecordsForFQDN while none is modelled
FqdnIdle ==
    /\ fKey = <<>> /\ fRecords = <<>> /\ fServers = <<>> /\ fRecordSuccessful = FALSE
    /\ fPc = "idle" /\ fIdx = 1 /\ fAnswers = <<>> /\ fDiscrepancies = <<>>
    /\ fSuccessful = <<>>

\* the variables of the PTR-deriving revision while it is not modelled
PtrIdle ==
    /\ ptrRecords = <<>>
    /\ validatedPTRs = {}
    /\ ptrTasks = <<>>
    /\ ptrChan = <<>>
    /\ ptrCalls = <<>>
    /\ ptrMain = "idle"
    /\ ptrDiscrepancies = <<>>

\* the variables of the bulk path while it is not modelled
\* TSIGKey (dnsutils.go 82-86) and the nil *TSIGKey
TSIGKey(name, secret, algorithm) ==
    [nil |-> FALSE, Name |-> name, Secret |-> secret, Algorithm |-> algorithm]
NilTSIGKey == [nil |-> TRUE, Name |-> "", Secret |-> "", Algorithm |-> ""]

AxfrIdle ==
    /\ axRecords = <<>>
    /\ axZoneFilter = EmptyString
    /\ axRecordSuccessful = FALSE
    /\ axTsigKeyFile = ""
    /\ tsigKey = NilTSIGKey
    /\ axMain = "idle"
    /\ axTasks = <<>>
    /\ axDiscrepanciesChan = <<>>
    /\ axSuccessfulChan = <<>>
    /\ axMissingChan = <<>>
    /\ axDiscrepancies = <<>>
    /\ axSuccessful = <<>>
    /\ axMissing = <<>>

\* the variables of the script generator while it is not modelled
CallIdle ==
    /\ callFn = "idle"
    /\ callArgs = <<>>
    /\ callResult = <<>>

\* main's flags at their defaults (main.go 50 and 59)
RetryIdle ==
    /\ qRevision = "" /\ qAttempts = <<>> /\ qAttempt = 0 /\ qExchanges = <<>>
    /\ qResp = <<>> /\ qSleeps = <<>> /\ qPc = "idle"

FlagsIdle ==
    /\ useAXFR = FALSE
    /\ validateSOA = "false"
    /\ RetryIdle

ScriptIdle ==
    /\ scDiscrepancies = <<>>
    /\ scCreateFails = {}
    /\ scPc = "idle"
    /\ recordDiscrepancies = <<>>
    /\ ttlDiscrepancies = <<>>
    /\ scFiles = {}

\* the variables of main's run while no run is modelled
RunIdle ==
    /\ records = <<>>
    /\ soaValidationMode = "false"
    /\ zoneFilter = EmptyString
    /\ viewFilter = ""
    /\ recordSuccessful = FALSE
    /\ ignoreSerialNumbers = FALSE
    /\ mainPc = "idle"
    /\ tasks = <<>>
    /\ discrepanciesChan = <<>>
    /\ successfulChan = <<>>
    /\ discrepancies = <<>>
    /\ successfulValidations = <<>>
    /\ queries = {}

FQDNInit ==
    /\ RunIdle
    /\ PtrIdle
    /\ AxfrIdle
    /\ ScriptIdle
    /\ CallIdle
    /\ FlagsIdle
    /\ \E inv \in Inventories :
         \E key \in GroupKeys(inv, EmptyString, "") :
            /\ Len(RecordServers(key)) > 0
            /\ fKey = key
            /\ fRecords = GroupOf(inv, key, EmptyString, "")
            /\ fServers = RecordServers(key)
    /\ fRecordSuccessful \in BOOLEAN
    /\ fPc = "start"
    /\ fIdx = 1
    /\ fAnswers = <<>>
    /\ fDiscrepancies = <<>>
    /\ fSuccessful = <<>>

\* lines 141-205: the expected state is computed, an unknown type returns
FQDNStart ==
    /\ fPc = "start"
    /\ IF fKey.RecordType \notin KnownTypes
       THEN /\ fDiscrepancies' =
                  <<UnknownTypeDiscrepancy(fKey, ExpectedValues(fKey, fRecords))>>
            /\ fPc' = "returned"
       ELSE /\ fPc' = "loop"
            /\ UNCHANGED fDiscrepancies
    /\ UNCHANGED <<fKey, fRecords, fServers, fRecordSuccessful, fIdx, fAnswers, fSuccessful>>
    /\ UNCHANGED notFqdnVars

\* lines 208-330: one server is queried and classified
FQDNQuery ==
    /\ fPc = "loop"
    /\ fIdx <= Len(fServers)
    /\ \E attempts \in AttemptSeqs(fKey.RecordType) :
         LET qr == queryDNSWithRetry(attempts, Retries)
             out == ValidateServer(fKey, ExpectedValues(fKey, fRecords),
                                   ExpectedTTL(fKey, fRecords), fServers[fIdx], qr,
                                   fRecordSuccessful)
         IN /\ fAnswers' = Append(fAnswers, qr)
            /\ fDiscrepancies' = fDiscrepancies \o out.disc
            /\ fSuccessful' = fSuccessful \o out.succ
    /\ fIdx' = fIdx + 1
    /\ UNCHANGED <<fKey, fRecords, fServers, fRecordSuccessful, fPc>>
    /\ UNCHANGED notFqdnVars

\* line 332
FQDNReturn ==
    /\ fPc = "loop"
    /\ fIdx > Len(fServers)
    /\ fPc' = "returned"
    /\ UNCHANGED <<fKey, fRecords, fServers, fRecordSuccessful, fIdx, fAnswers,
                   fDiscrepancies, fSuccessful>>
    /\ UNCHANGED notFqdnVars

FQDNNext == FQDNStart \/ FQDNQuery \/ FQDNReturn

SpecFQDN == FQDNInit /\ [][FQDNNext]_vars

(***************************************************************************)
(* Properties of validateRecordsForFQDN (checked under SpecFQDN).          *)
(***************************************************************************)
\* the multiset of a list, as a function value -> multiplicity
BagOfSeq(s) ==
    [v \in {s[i] : i \in 1..Len(s)} |-> Cardinality({i \in 1..Len(s) : s[i] = v})]

\* the values of all records of an answer section, as the server sent them
AnswerValues(answer) == [i \in 1..Len(answer) |-> answer[i].value]

fExpectedValues == ExpectedValues(fKey, fRecords)
fExpectedTTL == ExpectedTTL(fKey, fRecords)

\* the Discrepancies / Successes emitted so far for the i-th server
fDiscOf(i) == SelectSeq(fDiscrepancies, LAMBDA d : d.Server = fServers[i])
fSuccOf(i) == SelectSeq(fSuccessful, LAMBDA d : d.Server = fServers[i])

\* the i-th server answered with the expected values at the expected TTL
fServerMatches(i) ==
    /\ ~fAnswers[i].err
    /\ Len(fAnswers[i].answer) > 0
    /\ BagOfSeq(AnswerValues(fAnswers[i].answer)) = BagOfSeq(fExpectedValues)
    /\ \A j \in 1..Len(fAnswers[i].answer) : fAnswers[i].answer[j].ttl = fExpectedTTL

\* the i-th server's state differs from the expected one, or its query failed
fServerDiffers(i) ==
    \/ fAnswers[i].err
    \/ Len(fAnswers[i].answer) = 0
    \/ BagOfSeq(AnswerValues(fAnswers[i].answer)) # BagOfSeq(fExpectedValues)
    \/ fAnswers[i].answer[1].ttl # fExpectedTTL

\* C1: for a unit of a known record type, a server whose answer holds exactly
\* the expected values at the expected TTL gets no Discrepancy, and exactly one
\* Success when success-recording is enabled and none when it is disabled.
C1_MatchYieldsSuccessOnly ==
    \A i \in 1..Len(fAnswers) :
        (fKey.RecordType \in KnownTypes /\ fServerMatches(i)) =>
            /\ Len(fDiscOf(i)) = 0
            /\ Len(fSuccOf(i)) = (IF fRecordSuccessful THEN 1 ELSE 0)

\* C1 restricted to the record kinds the answer loop extracts a value from
C1_ExtractedKindsOnly ==
    \A i \in 1..Len(fAnswers) :
        (fKey.RecordType \in ExtractedKinds /\ fServerMatches(i)) =>
            /\ Len(fDiscOf(i)) = 0
            /\ Len(fSuccOf(i)) = (IF fRecordSuccessful THEN 1 ELSE 0)

\* C2: for a unit of a known record type and each server queried, exactly one
\* Discrepancy is emitted if the query failed, the answer was empty, or values or
\* TTL differ, and none otherwise; a mismatch on a populated answer carries the
\* expected and the actual snapshot.
C2_DiscrepancyIffDiffers ==
    \A i \in 1..Len(fAnswers) :
        fKey.RecordType \in KnownTypes =>
            /\ Len(fDiscOf(i)) = (IF fServerDiffers(i) THEN 1 ELSE 0)
            /\ (fServerDiffers(i) /\ ~fAnswers[i].err /\ Len(fAnswers[i].answer) > 0) =>
                  /\ fDiscOf(i)[1].Expected = ListPayload(fExpectedValues)
                  /\ fDiscOf(i)[1].Actual = ListPayload(AnswerValues(fAnswers[i].answer))
                  /\ fDiscOf(i)[1].ExpectedTTL = fExpectedTTL
                  /\ fDiscOf(i)[1].ActualTTL = fAnswers[i].answer[1].ttl

\* C2 restricted to the record kinds the answer loop extracts a value from
C2_ExtractedKindsOnly ==
    \A i \in 1..Len(fAnswers) :
        fKey.RecordType \in ExtractedKinds =>
            /\ Len(fDiscOf(i)) = (IF fServerDiffers(i) THEN 1 ELSE 0)
            /\ (fServerDiffers(i) /\ ~fAnswers[i].err /\ Len(fAnswers[i].answer) > 0) =>
                  /\ fDiscOf(i)[1].Expected = ListPayload(fExpectedValues)
                  /\ fDiscOf(i)[1].Actual = ListPayload(AnswerValues(fAnswers[i].answer))
                  /\ fDiscOf(i)[1].ExpectedTTL = fExpectedTTL
                  /\ fDiscOf(i)[1].ActualTTL = fAnswers[i].answer[1].ttl

\* C8: per server, a lookup whose attempts all failed without a name-error
\* response is reported as "DNS query error", a name-error (NXDOMAIN) response as
\* "Record missing (NXDOMAIN)", a successful empty answer as "Record missing";
\* each case yields exactly one Discrepancy.
C8_FailedLookupClassification ==
    \A i \in 1..Len(fAnswers) :
        LET qr == fAnswers[i]
            nameError == ~qr.respNil /\ qr.rcode = "NXDOMAIN"
            want == IF nameError THEN "Record missing (NXDOMAIN)"
                    ELSE IF qr.err THEN "DNS query error"
                    ELSE "Record missing"
        IN (qr.err \/ nameError \/ Len(qr.answer) = 0) =>
              /\ Len(fDiscOf(i)) = 1
              /\ fDiscOf(i)[1].Message = want

\* C8 without the name-error case: query errors and empty answers
C8_ErrorAndEmptyOnly ==
    \A i \in 1..Len(fAnswers) :
        LET qr == fAnswers[i]
        IN ((qr.err \/ Len(qr.answer) = 0) /\ qr.rcode # "NXDOMAIN") =>
              /\ Len(fDiscOf(i)) = 1
              /\ fDiscOf(i)[1].Message = (IF qr.err THEN "DNS query error" ELSE "Record missing")

(***************************************************************************)
(* The SOA path (soa_validator.go).                                        *)
(***************************************************************************)
SOARecord(mname, rname, serial, refresh, retry, expire, minimum) ==
    [MName |-> mname, RName |-> rname, Serial |-> serial, Refresh |-> refresh,
     Retry |-> retry, Expire |-> expire, Minimum |-> minimum]

\* an SOARecord as Expected or Actual payload
SoaPayload(soa) == [kind |-> "soa", v |-> <<soa>>]

RECURSIVE FieldsFrom(_, _, _, _)
\* strings.Fields: the maximal runs of non-blank tokens
FieldsFrom(value, i, field, parts) ==
    IF i > Len(value)
    THEN IF Len(field) > 0 THEN Append(parts, field) ELSE parts
    ELSE IF value[i] = " "
         THEN FieldsFrom(value, i + 1, <<>>,
                         IF Len(field) > 0 THEN Append(parts, field) ELSE parts)
         ELSE FieldsFrom(value, i + 1, Append(field, value[i]), parts)

Fields(value) == FieldsFrom(value, 1, <<>>, <<>>)

\* parseUint32: fmt.Sscanf(s, "%d", &val) reads the leading decimal number and
\* leaves val at 0 when there is none
parseUint32(field) ==
    IF Len(field) = 0 THEN 0
    ELSE CASE field[1] = "1" -> 1
           [] field[1] = "2" -> 2
           [] field[1] = "3" -> 3
           [] field[1] = "4" -> 4
           [] field[1] = "5" -> 5
           [] field[1] = "9" -> 9
           [] OTHER -> 0

\* a parser that takes any value with at least two fields
parseSOARecord_AtLeastTwoFields(record) ==
    LET parts == Fields(record.Value) \o <<<<>>, <<>>, <<>>, <<>>, <<>>, <<>>, <<>>>>
    IN IF Len(Fields(record.Value)) < 2
       THEN [nil |-> TRUE, soa |-> SOARecord(<<>>, <<>>, 0, 0, 0, 0, 0)]
       ELSE [nil |-> FALSE,
             soa |-> SOARecord(parts[1], parts[2], parseUint32(parts[3]),
                               parseUint32(parts[4]), parseUint32(parts[5]),
                               parseUint32(parts[6]), parseUint32(parts[7]))]

\* parseSOARecord: [nil |-> TRUE] for a value that has not exactly 7 fields
parseSOARecord(record) ==
    LET parts == Fields(record.Value)
    IN IF Len(parts) # 7 THEN [nil |-> TRUE, soa |-> SOARecord(<<>>, <<>>, 0, 0, 0, 0, 0)]
       ELSE [nil |-> FALSE,
             soa |-> SOARecord(parts[1], parts[2], parseUint32(parts[3]),
                               parseUint32(parts[4]), parseUint32(parts[5]),
                               parseUint32(parts[6]), parseUint32(parts[7]))]

\* a comparison that looks at the serial in both modes
soaRecordsEqual_SerialAlways(a, b, ignoreSerial) ==
    IF a.MName # b.MName \/ a.RName # b.RName \/ a.Refresh # b.Refresh
       \/ a.Retry # b.Retry \/ a.Expire # b.Expire \/ a.Minimum # b.Minimum
    THEN FALSE
    ELSE a.Serial = b.Serial

soaRecordsEqual(a, b, ignoreSerial) ==
    IF a.MName # b.MName \/ a.RName # b.RName \/ a.Refresh # b.Refresh
       \/ a.Retry # b.Retry \/ a.Expire # b.Expire \/ a.Minimum # b.Minimum
    THEN FALSE
    ELSE IF ignoreSerial THEN TRUE ELSE a.Serial = b.Serial

\* validateSOARecord: the expected TTL of the inventory SOA record
SOAExpectedTTL(record) == IF record.TTL > 0 THEN record.TTL ELSE record.ZoneDefaultTTL

\* the Discrepancy of an inventory SOA value that does not parse
InvalidSOADiscrepancy(record) ==
    Discrepancy(record.FQDN, "SOA", EmptyString, NilPayload, NilPayload, 0, 0, "",
                "Invalid SOA record format")

RECURSIVE SOAAnswerLoop(_, _, _, _, _, _, _, _)
\* the loop over resp.Answer of validateSOARecord: the first SOA record of
\* the answer is compared and ends the loop; other records are passed over
SOAAnswerLoop(record, expectedSOA, expectedTTL, server, answer, i, ignoreSerial, recSucc) ==
    IF i > Len(answer) THEN [disc |-> <<>>, succ |-> <<>>]
    ELSE IF answer[i].kind = "SOA"
         THEN IF ~soaRecordsEqual(expectedSOA, answer[i].value, ignoreSerial)
                 \/ expectedTTL # answer[i].ttl
              THEN [disc |-> <<Discrepancy(record.FQDN, "SOA", EmptyString,
                                  SoaPayload(expectedSOA), SoaPayload(answer[i].value),
                                  expectedTTL, answer[i].ttl, server, "")>>,
                    succ |-> <<>>]
              ELSE [disc |-> <<>>,
                    succ |-> IF recSucc
                             THEN <<ValidationRecord(record.FQDN, "SOA", EmptyString,
                                       SoaPayload(expectedSOA), SoaPayload(answer[i].value),
                                       expectedTTL, answer[i].ttl, server,
                                       "SOA record validated successfully")>>
                             ELSE <<>>]
         ELSE SOAAnswerLoop(record, expectedSOA, expectedTTL, server, answer, i + 1,
                            ignoreSerial, recSucc)

\* One iteration of the server loop of validateSOARecord.
ValidateSOAServer(record, expectedSOA, expectedTTL, server, qr, ignoreSerial, recSucc) ==
    IF qr.err
    THEN IF ~qr.respNil /\ qr.rcode = "NXDOMAIN"
         THEN [disc |-> <<Discrepancy(record.FQDN, "SOA", EmptyString,
                             SoaPayload(expectedSOA), NilPayload, 0, 0, server,
                             "SOA record missing (NXDOMAIN)")>>,
               succ |-> <<>>]
         ELSE [disc |-> <<Discrepancy(record.FQDN, "SOA", EmptyString,
                             SoaPayload(expectedSOA), NilPayload, 0, 0, server,
                             "DNS query error")>>,
               succ |-> <<>>]
    ELSE IF Len(qr.answer) = 0
    THEN [disc |-> <<Discrepancy(record.FQDN, "SOA", EmptyString,
                        SoaPayload(expectedSOA), NilPayload, 0, 0, server,
                        "SOA record missing")>>,
          succ |-> <<>>]
    ELSE SOAAnswerLoop(record, expectedSOA, expectedTTL, server, qr.answer, 1,
                       ignoreSerial, recSucc)

\* validateSOARecords: the servers an SOA record is validated against; <<>>
\* when the record is skipped
SOARecordServers(key) ==
    IF key.ZoneName # EmptyString /\ key.ViewName # ""
    THEN zoneViewToNameservers(key.ZoneName, key.ViewName)
    ELSE <<>>

\* validateSOARecords: the key of the task of one SOA record
SOAKeyOf(record) == RecordKey(record.FQDN, "SOA", record.ZoneName, record.ViewName)

\* validateSOARecords: the SOA records of the inventory, in inventory order
soaRecords(recs) == SelectSeq(recs, LAMBDA r : ToUpper(r.Type) = "SOA")

(***************************************************************************)
(* Spec: main's run over the per-record path (validateAllRecords) and the  *)
(* SOA path (validateSOARecords).  Each path starts one task per unit; the *)
(* tasks run concurrently, send their results to two buffered channels of  *)
(* capacity len(records)*len(servers), and main collects the channels      *)
(* after the last task has finished.                                       *)
(***************************************************************************)
\* the values of the validate-soa flag
ValidateSOAFlags == {"true", "only", "false", "yes", "TRUE"}

\* strings.ToLower on a value of the flag
ToLowerFlag(mode) ==
    CASE mode = "TRUE" -> "true"
      [] mode = "ONLY" -> "only"
      [] mode = "Only" -> "only"
      [] OTHER -> mode

\* a parser that compares the flag as it was given
parseSOAValidationMode_CaseSensitive(mode) ==
    CASE mode = "true" -> "true"
      [] mode = "only" -> "only"
      [] OTHER -> "false"

parseSOAValidationMode(mode) ==
    CASE ToLowerFlag(mode) = "true" -> "true"
      [] ToLowerFlag(mode) = "only" -> "only"
      [] OTHER -> "false"

\* the zone and view filters of the model
Filters == {<<EmptyString, "">>, <<ExampleCom, "">>, <<EmptyString, "internal">>}

\* the state of a task at its start
NewTask(key, recs) ==
    [pc |-> "start", key |-> key, recs |-> recs, srv |-> <<>>, idx |-> 1,
     disc |-> <<>>, succ |-> <<>>]

\* whether recs[i] opens a group of expectedRecords
FirstOfGroup(recs, i, zf, vf) ==
    /\ Grouped(recs[i], zf, vf)
    /\ \A j \in 1..(i - 1) : ~(Grouped(recs[j], zf, vf) /\ KeyOf(recs[j]) = KeyOf(recs[i]))

\* validateAllRecords: one task per key of expectedRecords
RecordTasks(recs, zf, vf) ==
    LET ix == SelectSeq([i \in 1..Len(recs) |-> i], LAMBDA i : FirstOfGroup(recs, i, zf, vf))
    IN [n \in 1..Len(ix) |->
           NewTask(KeyOf(recs[ix[n]]), GroupOf(recs, KeyOf(recs[ix[n]]), zf, vf))]

\* validateSOARecords: one task per SOA record
SOATasks(recs) ==
    [n \in 1..Len(soaRecords(recs)) |->
        NewTask(SOAKeyOf(soaRecords(recs)[n]), <<soaRecords(recs)[n]>>)]

\* channels that hold one result
ChanCapacity_One(recs) == 1

\* cap(discrepanciesChan) = cap(successfulChan)
ChanCapacity(recs) == Len(recs) * Len(servers)

\* what the exchanges with one server return in a run of the model: no reply
\* at all, an empty answer, the inventory's own state, or a name error after
\* two lost queries
RunAttempts(answer) ==
    { [i \in 1..Retries |-> AttemptTimeout],
      [i \in 1..Retries |-> Reply("NOERROR", <<>>)],
      [i \in 1..Retries |-> Reply("NOERROR", answer)],
      [i \in 1..Retries |-> IF i < Retries THEN AttemptTimeout ELSE Reply("NXDOMAIN", <<>>)] }

\* the answer of a server that holds the unit as the inventory describes it
InventoryAnswer(key, recs) ==
    [i \in 1..Len(recs) |->
        RR(key.RecordType, ExpectedValues(key, recs)[i], ExpectedTTL(key, recs))]

\* the SOA answer of a server that holds the zone as the inventory describes it
InventorySOAAnswer(record) ==
    <<RR("SOA", parseSOARecord(record).soa, SOAExpectedTTL(record))>>

Init ==
    /\ FqdnIdle
    /\ PtrIdle
    /\ AxfrIdle
    /\ ScriptIdle
    /\ CallIdle
    /\ RetryIdle
    /\ useAXFR = FALSE
    /\ validateSOA \in ValidateSOAFlags
    /\ records \in Inventories
    /\ soaValidationMode = parseSOAValidationMode(validateSOA)
    /\ \E f \in Filters : zoneFilter = f[1] /\ viewFilter = f[2]
    /\ recordSuccessful \in BOOLEAN
    /\ ignoreSerialNumbers \in BOOLEAN
    /\ mainPc = "start"
    /\ tasks = <<>>
    /\ discrepanciesChan = <<>>
    /\ successfulChan = <<>>
    /\ discrepancies = <<>>
    /\ successfulValidations = <<>>
    /\ queries = {}

runInputs == <<records, soaValidationMode, zoneFilter, viewFilter, recordSuccessful,
               ignoreSerialNumbers>>

\* main.go 312-316 and validator.go 25-110: the per-record path starts its tasks
MainValidateAllRecords ==
    /\ mainPc = "start"
    /\ ~useAXFR
    /\ soaValidationMode # "only"
    /\ tasks' = RecordTasks(records, zoneFilter, viewFilter)
    /\ mainPc' = "waitRecords"
    /\ UNCHANGED <<runInputs, discrepanciesChan, successfulChan, discrepancies,
                   successfulValidations, queries>>
    /\ UNCHANGED notRunVars

\* main.go 313: mode "only" leaves the per-record path out
MainSkipAllRecords ==
    /\ mainPc = "start"
    /\ ~useAXFR
    /\ soaValidationMode = "only"
    /\ mainPc' = "afterRecords"
    /\ UNCHANGED <<runInputs, tasks, discrepanciesChan, successfulChan, discrepancies,
                   successfulValidations, queries>>
    /\ UNCHANGED notRunVars

\* validator.go 75-100 and 141-205: a task resolves its servers; it ends when
\* there is none, and an unknown record type returns its one Discrepancy
RecordTaskStart(t) ==
    /\ mainPc = "waitRecords"
    /\ tasks[t].pc = "start"
    /\ LET key == tasks[t].key
           recordServers == RecordServers(key)
       IN tasks' = [tasks EXCEPT ![t] =
              IF Len(recordServers) = 0 THEN [@ EXCEPT !.pc = "done"]
              ELSE IF key.RecordType \notin KnownTypes
                   THEN [@ EXCEPT !.pc = "send", !.srv = recordServers,
                            !.disc = <<UnknownTypeDiscrepancy(key,
                                          ExpectedValues(key, tasks[t].recs))>>]
                   ELSE [@ EXCEPT !.pc = "query", !.srv = recordServers]]
    /\ UNCHANGED <<runInputs, mainPc, discrepanciesChan, successfulChan, discrepancies,
                   successfulValidations, queries>>
    /\ UNCHANGED notRunVars

\* validator.go 208-330: the task queries its next server and classifies the
\* result; after the last server validateRecordsForFQDN returns
RecordTaskQuery(t) ==
    /\ mainPc = "waitRecords"
    /\ tasks[t].pc = "query"
    /\ LET key == tasks[t].key
           server == tasks[t].srv[tasks[t].idx]
       IN \E attempts \in RunAttempts(InventoryAnswer(key, tasks[t].recs)) :
            LET qr == queryDNSWithRetry(attempts, Retries)
                out == ValidateServer(key, ExpectedValues(key, tasks[t].recs),
                                      ExpectedTTL(key, tasks[t].recs), server, qr,
                                      recordSuccessful)
            IN /\ tasks' = [tasks EXCEPT ![t] =
                      [@ EXCEPT !.disc = @ \o out.disc, !.succ = @ \o out.succ,
                                !.idx = @ + 1,
                                !.pc = IF tasks[t].idx = Len(tasks[t].srv)
                                       THEN "send" ELSE "query"]]
               /\ queries' = queries \cup {[key |-> key, server |-> server, qr |-> qr]}
    /\ UNCHANGED <<runInputs, mainPc, discrepanciesChan, successfulChan, discrepancies,
                   successfulValidations>>
    /\ UNCHANGED notRunVars

\* validator.go 103-105, soa_validator.go 66-68: the next Discrepancy of the
\* task is sent; the send waits while the channel is full
TaskSendDiscrepancy(t) ==
    /\ mainPc \in {"waitRecords", "waitSOA"}
    /\ tasks[t].pc = "send"
    /\ Len(tasks[t].disc) > 0
    /\ Len(discrepanciesChan) < ChanCapacity(records)
    /\ discrepanciesChan' = Append(discrepanciesChan, Head(tasks[t].disc))
    /\ tasks' = [tasks EXCEPT ![t].disc = Tail(@)]
    /\ UNCHANGED <<runInputs, mainPc, successfulChan, discrepancies,
                   successfulValidations, queries>>
    /\ UNCHANGED notRunVars

\* validator.go 106-108, soa_validator.go 69-71: the next Success is sent
TaskSendSuccessful(t) ==
    /\ mainPc \in {"waitRecords", "waitSOA"}
    /\ tasks[t].pc = "send"
    /\ Len(tasks[t].disc) = 0
    /\ Len(tasks[t].succ) > 0
    /\ Len(successfulChan) < ChanCapacity(records)
    /\ successfulChan' = Append(successfulChan, Head(tasks[t].succ))
    /\ tasks' = [tasks EXCEPT ![t].succ = Tail(@)]
    /\ UNCHANGED <<runInputs, mainPc, discrepanciesChan, discrepancies,
                   successfulValidations, queries>>
    /\ UNCHANGED notRunVars

\* validator.go 73, soa_validator.go 43: wg.Done when the task function returns
TaskDone(t) ==
    /\ mainPc \in {"waitRecords", "waitSOA"}
    /\ tasks[t].pc = "send"
    /\ Len(tasks[t].disc) = 0
    /\ Len(tasks[t].succ) = 0
    /\ tasks' = [tasks EXCEPT ![t].pc = "done"]
    /\ UNCHANGED <<runInputs, mainPc, discrepanciesChan, successfulChan, discrepancies,
                   successfulValidations, queries>>
    /\ UNCHANGED notRunVars

AllTasksDone == \A t \in 1..Len(tasks) : tasks[t].pc = "done"

\* a collection that waits for one task only
MainCollectRecords_FirstTaskOnly ==
    /\ mainPc = "waitRecords"
    /\ Len(tasks) > 0 => tasks[1].pc = "done"
    /\ discrepancies' = discrepanciesChan
    /\ successfulValidations' = successfulChan
    /\ discrepanciesChan' = <<>>
    /\ successfulChan' = <<>>
    /\ mainPc' = "afterRecords"
    /\ UNCHANGED <<runInputs, tasks, queries>>
    /\ UNCHANGED notRunVars

\* validator.go 112-128: wg.Wait, the channels are closed and drained
MainCollectRecords ==
    /\ mainPc = "waitRecords"
    /\ AllTasksDone
    /\ discrepancies' = discrepanciesChan
    /\ successfulValidations' = successfulChan
    /\ discrepanciesChan' = <<>>
    /\ successfulChan' = <<>>
    /\ mainPc' = "afterRecords"
    /\ UNCHANGED <<runInputs, tasks, queries>>
    /\ UNCHANGED notRunVars

\* main.go 318-323 and soa_validator.go 14-74: the SOA path starts its tasks
MainValidateSOARecords ==
    /\ mainPc = "afterRecords"
    /\ soaValidationMode # "false"
    /\ tasks' = SOATasks(records)
    /\ mainPc' = "waitSOA"
    /\ UNCHANGED <<runInputs, discrepanciesChan, successfulChan, discrepancies,
                   successfulValidations, queries>>
    /\ UNCHANGED notRunVars

\* main.go 318: mode "false" leaves the SOA path out
MainSkipSOARecords ==
    /\ mainPc = "afterRecords"
    /\ soaValidationMode = "false"
    /\ mainPc' = "finished"
    /\ UNCHANGED <<runInputs, tasks, discrepanciesChan, successfulChan, discrepancies,
                   successfulValidations, queries>>
    /\ UNCHANGED notRunVars

\* soa_validator.go 44-65 and 93-110: a task resolves its servers; it ends
\* when there is none, and a value that does not parse returns its one
\* Discrepancy
SOATaskStart(t) ==
    /\ mainPc = "waitSOA"
    /\ tasks[t].pc = "start"
    /\ LET key == tasks[t].key
           record == tasks[t].recs[1]
           recordServers == SOARecordServers(key)
       IN tasks' = [tasks EXCEPT ![t] =
              IF Len(recordServers) = 0 THEN [@ EXCEPT !.pc = "done"]
              ELSE IF parseSOARecord(record).nil
                   THEN [@ EXCEPT !.pc = "send", !.srv = recordServers,
                                  !.disc = <<InvalidSOADiscrepancy(record)>>]
                   ELSE [@ EXCEPT !.pc = "query", !.srv = recordServers]]
    /\ UNCHANGED <<runInputs, mainPc, discrepanciesChan, successfulChan, discrepancies,
                   successfulValidations, queries>>
    /\ UNCHANGED notRunVars

\* an answer that holds the inventory SOA with another serial
StaleSOAAnswer(record) ==
    <<RR("SOA", [parseSOARecord(record).soa EXCEPT !.Serial = 9], SOAExpectedTTL(record))>>

\* soa_validator.go 115-204: the task queries its next server
SOATaskQuery(t) ==
    /\ mainPc = "waitSOA"
    /\ tasks[t].pc = "query"
    /\ LET key == tasks[t].key
           record == tasks[t].recs[1]
           server == tasks[t].srv[tasks[t].idx]
       IN \E attempts \in RunAttempts(InventorySOAAnswer(record))
                            \cup {[i \in 1..Retries |->
                                     Reply("NOERROR", StaleSOAAnswer(record))]} :
            LET qr == queryDNSWithRetry(attempts, Retries)
                out == ValidateSOAServer(record, parseSOARecord(record).soa,
                                         SOAExpectedTTL(record), server, qr,
                                         ignoreSerialNumbers, recordSuccessful)
            IN /\ tasks' = [tasks EXCEPT ![t] =
                      [@ EXCEPT !.disc = @ \o out.disc, !.succ = @ \o out.succ,
                                !.idx = @ + 1,
                                !.pc = IF tasks[t].idx = Len(tasks[t].srv)
                                       THEN "send" ELSE "query"]]
               /\ queries' = queries \cup {[key |-> key, server |-> server, qr |-> qr]}
    /\ UNCHANGED <<runInputs, mainPc, discrepanciesChan, successfulChan, discrepancies,
                   successfulValidations>>
    /\ UNCHANGED notRunVars

\* soa_validator.go 76-90 and main.go 321-322: wg.Wait, the channels are
\* closed and drained, main appends the SOA results to the run's results
MainCollectSOA ==
    /\ mainPc = "waitSOA"
    /\ AllTasksDone
    /\ discrepancies' = discrepancies \o discrepanciesChan
    /\ successfulValidations' = successfulValidations \o successfulChan
    /\ discrepanciesChan' = <<>>
    /\ successfulChan' = <<>>
    /\ mainPc' = "finished"
    /\ UNCHANGED <<runInputs, tasks, queries>>
    /\ UNCHANGED notRunVars

Next ==
    \/ MainValidateAllRecords
    \/ MainSkipAllRecords
    \/ \E t \in 1..Len(tasks) : RecordTaskStart(t)
    \/ \E t \in 1..Len(tasks) : RecordTaskQuery(t)
    \/ \E t \in 1..Len(tasks) : TaskSendDiscrepancy(t)
    \/ \E t \in 1..Len(tasks) : TaskSendSuccessful(t)
    \/ \E t \in 1..Len(tasks) : TaskDone(t)
    \/ MainCollectRecords
    \/ MainValidateSOARecords
    \/ MainSkipSOARecords
    \/ \E t \in 1..Len(tasks) : SOATaskStart(t)
    \/ \E t \in 1..Len(tasks) : SOATaskQuery(t)
    \/ MainCollectSOA

Spec == Init /\ [][Next]_vars

(***************************************************************************)
(* Properties of the run (checked under Spec).                             *)
(***************************************************************************)
\* server is registered for (zone, view) in the nameserver inventory
Registered(server, zone, view) ==
    \E n \in 1..Len(nameservers) :
        /\ nameservers[n].Name = server
        /\ \E z \in 1..Len(nameservers[n].Zones) :
              /\ ~nameservers[n].Zones[z].ViewNil
              /\ nameservers[n].Zones[z].Name = zone
              /\ nameservers[n].Zones[z].ViewName = view

\* a unit without zone or view information, or whose pair has no server
Unresolvable(zone, view) ==
    \/ zone = EmptyString
    \/ view = ""
    \/ ~\E n \in 1..Len(nameservers) : Registered(nameservers[n].Name, zone, view)

\* every Discrepancy / Success that exists anywhere in the run: held by a
\* task, in flight in a channel, or collected by main
PendingDiscrepancies(t) == {tasks[t].disc[i] : i \in 1..Len(tasks[t].disc)}
PendingSuccesses(t) == {tasks[t].succ[i] : i \in 1..Len(tasks[t].succ)}
SeqRange(q) == {q[i] : i \in 1..Len(q)}

AllDiscrepanciesOfRun ==
    SeqRange(discrepancies) \cup SeqRange(discrepanciesChan)
        \cup UNION {PendingDiscrepancies(t) : t \in 1..Len(tasks)}
AllSuccessesOfRun ==
    SeqRange(successfulValidations) \cup SeqRange(successfulChan)
        \cup UNION {PendingSuccesses(t) : t \in 1..Len(tasks)}

\* C6: every query of the run goes to a server registered for the queried
\* unit's (zone, view) pair, and an inventory record with an empty zone name, an
\* empty view name or a pair without registered nameserver gets no query, no
\* Discrepancy and no Success, in the per-record path and in the SOA path.
C6_NeverDefaultsToAllServers ==
    /\ \A q \in queries : Registered(q.server, q.key.ZoneName, q.key.ViewName)
    /\ \A i \in 1..Len(records) :
          Unresolvable(records[i].ZoneName, records[i].ViewName) =>
              /\ \A q \in queries :
                    ~(q.key.FQDN = records[i].FQDN /\ q.key.RecordType = ToUpper(records[i].Type))
              /\ \A d \in AllDiscrepanciesOfRun \cup AllSuccessesOfRun :
                    ~(d.FQDN = records[i].FQDN /\ d.RecordType = ToUpper(records[i].Type))

\* a finished run in which a unit without resolvable authority went through
\* its path while another unit was queried
C6_Witness ==
    /\ mainPc = "finished"
    /\ queries # {}
    /\ \E i \in 1..Len(records) :
          /\ Unresolvable(records[i].ZoneName, records[i].ViewName)
          /\ IF ToUpper(records[i].Type) = "SOA" THEN soaValidationMode # "false"
             ELSE soaValidationMode # "only" /\ Grouped(records[i], zoneFilter, viewFilter)

\* the record types of the inventory that are no DNS type
UnknownInventoryTypes == {"BOGUS"}

\* the units of the per-record path of this run
UnitsOfRun == GroupKeys(records, zoneFilter, viewFilter)

\* the collected Discrepancies "Unknown record type" of a unit
UnknownTypeReports(key) ==
    {i \in 1..Len(discrepancies) :
        /\ discrepancies[i].FQDN = key.FQDN
        /\ discrepancies[i].RecordType = key.RecordType
        /\ discrepancies[i].Message = "Unknown record type"}

PerRecordPathReturned ==
    soaValidationMode # "only" /\ mainPc \in {"afterRecords", "waitSOA", "finished"}

\* C7: once the per-record path has returned, every unit whose record type is
\* no known DNS type has exactly one Discrepancy "Unknown record type" in the
\* result, and no query was issued for it.
C7_UnknownTypeAlwaysReported ==
    \A key \in UnitsOfRun :
        key.RecordType \in UnknownInventoryTypes =>
            /\ \A q \in queries : q.key # key
            /\ PerRecordPathReturned => Cardinality(UnknownTypeReports(key)) = 1

\* C7 (amended): a unit of unknown record type has exactly one Discrepancy
\* "Unknown record type" in the result when its (zone, view) pair has a
\* registered nameserver, and none when the unit has no zone or view or no
\* registered nameserver; in both cases no query is issued for it.
C7_UnknownTypeReportedWhenResolvable ==
    \A key \in UnitsOfRun :
        key.RecordType \in UnknownInventoryTypes =>
            /\ \A q \in queries : q.key # key
            /\ PerRecordPathReturned =>
                  Cardinality(UnknownTypeReports(key)) =
                      (IF Unresolvable(key.ZoneName, key.ViewName) THEN 0 ELSE 1)

\* a finished run with a reported and a skipped unit of unknown type
C7_Witness ==
    /\ mainPc = "finished"
    /\ soaValidationMode # "only"
    /\ \E key \in UnitsOfRun :
          /\ key.RecordType \in UnknownInventoryTypes
          /\ ~Unresolvable(key.ZoneName, key.ViewName)
          /\ Cardinality(UnknownTypeReports(key)) = 1
    /\ \E key \in UnitsOfRun :
          /\ key.RecordType \in UnknownInventoryTypes
          /\ Unresolvable(key.ZoneName, key.ViewName)

(***************************************************************************)
(* The revision of validateAllRecords that derives a PTR validation from   *)
(* every A record (validator.go, earlier revision).  A record of this      *)
(* revision carries DisablePTR and the value of its PTRRecord (<<>> for    *)
(* nil); a Discrepancy has a string Expected and a list Actual.            *)
(***************************************************************************)
OldRec(id, type, fqdn, value, disablePTR, ptrValue, zone, view) ==
    [ID |-> id, Type |-> type, FQDN |-> fqdn, Value |-> value, DisablePTR |-> disablePTR,
     PTRValue |-> ptrValue, ZoneName |-> zone, ViewName |-> view]

ReverseName10 == <<"10.2.0.192", ".", "in-addr", ".", "arpa", ".">>
ReverseName2 == <<"2.2.0.192", ".", "in-addr", ".", "arpa", ".">>

PtrInventoryRecords ==
    << OldRec(1, "A", Fqdn("www", ExampleCom), <<"192.0.2.10">>, FALSE, <<>>,
              ExampleCom, "default"),
       OldRec(2, "a", Fqdn("web", ExampleCom), <<"192.0.2.10">>, FALSE,
              Fqdn("www", ExampleCom), ExampleCom, "default"),
       OldRec(3, "A", Fqdn("mail", ExampleCom), <<"192.0.2.2">>, FALSE, <<>>,
              ExampleCom, "default"),
       OldRec(4, "A", Fqdn("off", ExampleCom), <<"192.0.2.10">>, TRUE, <<>>,
              ExampleCom, "default"),
       OldRec(5, "PTR", ReverseName10, Fqdn("www", ExampleCom), FALSE, <<>>,
              ExampleCom, "default"),
       OldRec(6, "A", Fqdn("bad", ExampleCom), <<"not-an-ip">>, FALSE, <<>>,
              ExampleCom, "default") >>

\* the inventories of this revision: at most MaxRecords records, in the order
\* of PtrInventoryRecords
PtrInventories ==
    {[i \in 1..Len(ix) |-> PtrInventoryRecords[ix[i]]] :
        ix \in {s \in SeqsUpTo(1..Len(PtrInventoryRecords), MaxRecords) :
                    \A i, j \in 1..Len(s) : i < j => s[i] < s[j]}}

OldDiscrepancy(fqdn, type, expected, actual, server, msg) ==
    [FQDN |-> fqdn, RecordType |-> type, Expected |-> expected, Actual |-> actual,
     Server |-> server, Message |-> msg]

\* dns.ReverseAddr: the reverse name of an address, or an error
ReverseAddr(value) ==
    CASE value = <<"192.0.2.10">> -> [err |-> FALSE, name |-> ReverseName10]
      [] value = <<"192.0.2.2">> -> [err |-> FALSE, name |-> ReverseName2]
      [] OTHER -> [err |-> TRUE, name |-> <<>>]

\* dns.Fqdn
DnsFqdn(name) == IF HasSuffixDot(name) THEN name ELSE name \o <<".">>

\* the PTR records of the inventory claim their names before any task starts
PreclaimedPTRs(recs) ==
    {recs[i].FQDN : i \in {j \in 1..Len(recs) : ToUpper(recs[j].Type) = "PTR"}}

\* the servers of a record in this revision: all servers when the record has
\* no zone or view or its pair has no nameserver
OldRecordServers(rec) ==
    IF rec.ZoneName # EmptyString /\ rec.ViewName # ""
    THEN IF Len(zoneViewToNameservers(rec.ZoneName, rec.ViewName)) = 0
         THEN servers
         ELSE zoneViewToNameservers(rec.ZoneName, rec.ViewName)
    ELSE servers

\* what a query returns in this revision's model: an error after the last
\* attempt, an empty answer, or the given answer
OldQueryResults(answer) ==
    {[AttemptTimeout EXCEPT !.err = TRUE], Reply("NOERROR", <<>>), Reply("NOERROR", answer)}

\* the CNAME qualification of validateRecord
OldExpectedValue(record) ==
    IF ToUpper(record.Type) = "CNAME" /\ ~HasSuffixDot(record.Value)
    THEN IF TrimRightDot(record.ZoneName) # EmptyString
         THEN TrimRightDot(record.Value) \o <<".">> \o TrimRightDot(record.ZoneName) \o <<".">>
         ELSE TrimRightDot(record.Value) \o <<".">>
    ELSE record.Value

\* whether one answer record matches the expected value (validateRecord)
OldRRMatches(rr, expectedValue) ==
    CASE rr.kind = "A" -> rr.value = expectedValue
      [] rr.kind \in {"CNAME", "NS", "PTR"} -> EqualFold(DnsFqdn(expectedValue), DnsFqdn(rr.value))
      [] OTHER -> FALSE

\* validateRecord, one server
OldValidateServer(record, expectedValue, server, qr) ==
    IF qr.err
    THEN <<OldDiscrepancy(record.FQDN, record.Type, expectedValue, <<>>, server,
                          "DNS query error")>>
    ELSE IF Len(qr.answer) = 0
    THEN <<OldDiscrepancy(record.FQDN, record.Type, expectedValue, <<>>, server,
                          "Record missing")>>
    ELSE IF \E i \in 1..Len(qr.answer) : OldRRMatches(qr.answer[i], expectedValue)
    THEN <<>>
    ELSE <<OldDiscrepancy(record.FQDN, record.Type, expectedValue,
                          AnswerValues(qr.answer), server, "Mismatch in DNS records")>>

RECURSIVE validateRecord(_, _, _, _)
\* validateRecord(record, servers, ...): results[i] is what the query to the
\* i-th server returns
validateRecord(record, srv, results, i) ==
    IF ToUpper(record.Type) \notin KnownTypes \/ i > Len(srv) THEN <<>>
    ELSE OldValidateServer(record, OldExpectedValue(record), srv[i], results[i])
            \o validateRecord(record, srv, results, i + 1)

\* validatePTRRecord, one server
PTRValidateServer(ptrName, expectedFQDN, server, qr) ==
    IF qr.err
    THEN <<OldDiscrepancy(ptrName, "PTR", DnsFqdn(expectedFQDN), <<>>, server,
                          "DNS query error")>>
    ELSE IF Len(qr.answer) = 0
    THEN <<OldDiscrepancy(ptrName, "PTR", DnsFqdn(expectedFQDN), <<>>, server,
                          "Record missing")>>
    ELSE IF \E i \in 1..Len(qr.answer) :
                /\ qr.answer[i].kind = "PTR"
                /\ EqualFold(DnsFqdn(expectedFQDN), DnsFqdn(qr.answer[i].value))
    THEN <<>>
    ELSE <<OldDiscrepancy(ptrName, "PTR", DnsFqdn(expectedFQDN),
                          AnswerValues(qr.answer), server, "Mismatch in PTR records")>>

RECURSIVE validatePTRRecord(_, _, _, _, _)
validatePTRRecord(ip, expectedFQDN, srv, results, i) ==
    IF ReverseAddr(ip).err \/ i > Len(srv) THEN <<>>
    ELSE PTRValidateServer(ReverseAddr(ip).name, expectedFQDN, srv[i], results[i])
            \o validatePTRRecord(ip, expectedFQDN, srv, results, i + 1)

\* the name the PTR of an A record must point to
PTRExpectedFQDN(rec) == IF rec.PTRValue # <<>> THEN rec.PTRValue ELSE rec.FQDN

\* whether a record gets a derived PTR validation at all
PTRApplicable(rec) ==
    ToUpper(rec.Type) = "A" /\ ~rec.DisablePTR /\ ~ReverseAddr(rec.Value).err

(***************************************************************************)
(* SpecPTR: one run of that revision.  The tasks share the map             *)
(* validatedPTRs without a lock: the test `!validatedPTRs[ptrName]` and    *)
(* the assignment `validatedPTRs[ptrName] = true` are two steps, and the   *)
(* Go runtime may abort the process when a map write overlaps another      *)
(* access.  The zone and view filters are unset.                           *)
(***************************************************************************)
PTRInit ==
    /\ FqdnIdle
    /\ RunIdle
    /\ AxfrIdle
    /\ ScriptIdle
    /\ CallIdle
    /\ FlagsIdle
    /\ ptrRecords \in PtrInventories
    /\ validatedPTRs = PreclaimedPTRs(ptrRecords)
    /\ ptrTasks = [i \in 1..Len(ptrRecords) |->
                      [pc |-> "start", rec |-> ptrRecords[i],
                       srv |-> OldRecordServers(ptrRecords[i]), out |-> <<>>]]
    /\ ptrChan = <<>>
    /\ ptrCalls = <<>>
    /\ ptrMain = "running"
    /\ ptrDiscrepancies = <<>>

\* cap(discrepanciesChan) of this revision
PtrChanCapacity(recs) == Len(recs) * Len(servers) * 2

\* lines 62-78: validateRecord runs against the record's servers
PTRTaskValidateRecord(t) ==
    /\ ptrMain = "running"
    /\ ptrTasks[t].pc = "start"
    /\ LET rec == ptrTasks[t].rec
           srv == ptrTasks[t].srv
       IN \E results \in [1..Len(srv) ->
                             OldQueryResults(<<RR(ToUpper(rec.Type), rec.Value, 300)>>)] :
            LET out == validateRecord(rec, srv, results, 1)
            IN ptrTasks' = [ptrTasks EXCEPT ![t] =
                   [@ EXCEPT !.out = out,
                             !.pc = IF Len(out) > 0 THEN "sendRecord" ELSE "check"]]
    /\ UNCHANGED <<ptrRecords, validatedPTRs, ptrChan, ptrCalls, ptrMain, ptrDiscrepancies>>
    /\ UNCHANGED notPtrVars

\* lines 79-81 and 97-99: the list of Discrepancies is sent
PTRTaskSend(t) ==
    /\ ptrMain = "running"
    /\ ptrTasks[t].pc \in {"sendRecord", "sendPTR"}
    /\ Len(ptrChan) < PtrChanCapacity(ptrRecords)
    /\ ptrChan' = Append(ptrChan, ptrTasks[t].out)
    /\ ptrTasks' = [ptrTasks EXCEPT ![t] =
           [@ EXCEPT !.out = <<>>,
                     !.pc = IF ptrTasks[t].pc = "sendRecord" THEN "check" ELSE "done"]]
    /\ UNCHANGED <<ptrRecords, validatedPTRs, ptrCalls, ptrMain, ptrDiscrepancies>>
    /\ UNCHANGED notPtrVars

\* lines 83-94 and 100-102: the task of an A record tests the shared map
PTRTaskTest(t) ==
    /\ ptrMain = "running"
    /\ ptrTasks[t].pc = "check"
    /\ LET rec == ptrTasks[t].rec
       IN ptrTasks' = [ptrTasks EXCEPT ![t].pc =
              IF PTRApplicable(rec) /\ ReverseAddr(rec.Value).name \notin validatedPTRs
              THEN "claim" ELSE "done"]
    /\ UNCHANGED <<ptrRecords, validatedPTRs, ptrChan, ptrCalls, ptrMain, ptrDiscrepancies>>
    /\ UNCHANGED notPtrVars

\* line 95: the task writes its claim into the shared map
PTRTaskClaim(t) ==
    /\ ptrMain = "running"
    /\ ptrTasks[t].pc = "claim"
    /\ validatedPTRs' = validatedPTRs \cup {ReverseAddr(ptrTasks[t].rec.Value).name}
    /\ ptrTasks' = [ptrTasks EXCEPT ![t].pc = "validatePTR"]
    /\ UNCHANGED <<ptrRecords, ptrChan, ptrCalls, ptrMain, ptrDiscrepancies>>
    /\ UNCHANGED notPtrVars

\* lines 94-95: a map write that overlaps another task's access to the map
\* is a data race; the runtime may detect it and abort the process
PTRMapFault(t, u) ==
    /\ ptrMain = "running"
    /\ t # u
    /\ ptrTasks[t].pc = "claim"
    /\ \/ ptrTasks[u].pc = "claim"
       \/ ptrTasks[u].pc = "check" /\ PTRApplicable(ptrTasks[u].rec)
    /\ ptrMain' = "fatal"
    /\ UNCHANGED <<ptrRecords, validatedPTRs, ptrTasks, ptrChan, ptrCalls, ptrDiscrepancies>>
    /\ UNCHANGED notPtrVars

\* line 96: validatePTRRecord runs for the reverse name
PTRTaskValidatePTR(t) ==
    /\ ptrMain = "running"
    /\ ptrTasks[t].pc = "validatePTR"
    /\ LET rec == ptrTasks[t].rec
           srv == ptrTasks[t].srv
       IN \E results \in [1..Len(srv) ->
                             OldQueryResults(<<RR("PTR", DnsFqdn(PTRExpectedFQDN(rec)), 300)>>)] :
            LET out == validatePTRRecord(rec.Value, PTRExpectedFQDN(rec), srv, results, 1)
            IN ptrTasks' = [ptrTasks EXCEPT ![t] =
                   [@ EXCEPT !.out = out,
                             !.pc = IF Len(out) > 0 THEN "sendPTR" ELSE "done"]]
    /\ ptrCalls' = Append(ptrCalls, ReverseAddr(ptrTasks[t].rec.Value).name)
    /\ UNCHANGED <<ptrRecords, validatedPTRs, ptrChan, ptrMain, ptrDiscrepancies>>
    /\ UNCHANGED notPtrVars

RECURSIVE Flatten(_)
Flatten(lists) == IF Len(lists) = 0 THEN <<>> ELSE Head(lists) \o Flatten(Tail(lists))

\* lines 107-116: wg.Wait, the channel is closed and drained
PTRMainCollect ==
    /\ ptrMain = "running"
    /\ \A t \in 1..Len(ptrTasks) : ptrTasks[t].pc = "done"
    /\ ptrDiscrepancies' = Flatten(ptrChan)
    /\ ptrChan' = <<>>
    /\ ptrMain' = "returned"
    /\ UNCHANGED <<ptrRecords, validatedPTRs, ptrTasks, ptrCalls>>
    /\ UNCHANGED notPtrVars

PTRNext ==
    \/ \E t \in 1..Len(ptrTasks) : PTRTaskValidateRecord(t)
    \/ \E t \in 1..Len(ptrTasks) : PTRTaskSend(t)
    \/ \E t \in 1..Len(ptrTasks) : PTRTaskTest(t)
    \/ \E t \in 1..Len(ptrTasks) : PTRTaskClaim(t)
    \/ \E t, u \in 1..Len(ptrTasks) : PTRMapFault(t, u)
    \/ \E t \in 1..Len(ptrTasks) : PTRTaskValidatePTR(t)
    \/ PTRMainCollect

SpecPTR == PTRInit /\ [][PTRNext]_vars

\* the number of runs of validatePTRRecord for a reverse name
PTRRuns(name) == Cardinality({i \in 1..Len(ptrCalls) : ptrCalls[i] = name})

\* the reverse names that some A record of the inventory must have validated
PTRNamesDue ==
    {ReverseAddr(ptrRecords[i].Value).name :
        i \in {j \in 1..Len(ptrRecords) : PTRApplicable(ptrRecords[j])}}
      \ PreclaimedPTRs(ptrRecords)

\* C3: validatePTRRecord never runs twice for one reverse name, and when the
\* run has returned it has run exactly once for every reverse name of an A record
\* (PTR not disabled) that is no inventory PTR record.
C3_PTRValidatedExactlyOnce ==
    /\ \A name \in PTRNamesDue : PTRRuns(name) <= 1
    /\ ptrMain = "returned" => \A name \in PTRNamesDue : PTRRuns(name) = 1

\* the same for inventories in which no two A records share a reverse name
C3_OnceWithoutSharedAddress ==
    (\A i, j \in 1..Len(ptrRecords) :
        (i # j /\ PTRApplicable(ptrRecords[i]) /\ PTRApplicable(ptrRecords[j]))
            => ptrRecords[i].Value # ptrRecords[j].Value)
    => /\ \A name \in PTRNamesDue : PTRRuns(name) <= 1
       /\ ptrMain = "returned" => \A name \in PTRNamesDue : PTRRuns(name) = 1

(***************************************************************************)
(* The bulk path: validateAllRecordsAXFR (validator.go 335-542).           *)
(***************************************************************************)
MaxTransfer == 2     \* resource records in one zone transfer

\* strings.HasSuffix
HasSuffix(str, suffix) ==
    /\ Len(suffix) <= Len(str)
    /\ SubSeq(str, Len(str) - Len(suffix) + 1, Len(str)) = suffix

RECURSIVE TrimLeftSpace(_)
TrimLeftSpace(str) ==
    IF Len(str) > 0 /\ str[1] = " " THEN TrimLeftSpace(Tail(str)) ELSE str

RECURSIVE TrimRightSpace(_)
TrimRightSpace(str) ==
    IF Len(str) > 0 /\ str[Len(str)] = " "
    THEN TrimRightSpace(SubSeq(str, 1, Len(str) - 1)) ELSE str

\* strings.TrimSpace
TrimSpace(str) == TrimRightSpace(TrimLeftSpace(str))

\* a transferred resource record: owner name, type, value, TTL
AxfrRR(name, kind, value, ttl) == [name |-> name, kind |-> kind, value |-> value, ttl |-> ttl]

\* the resource records a zone of the model may hold
ZoneRRs(zoneName) ==
    CASE zoneName = ExampleCom ->
            {AxfrRR(Fqdn("www", ExampleCom), "A", <<"192.0.2.10">>, 300),
             AxfrRR(Fqdn("orphan", ExampleCom), "A", <<"192.0.2.10">>, 300),
             AxfrRR(Fqdn("orphan", ExampleCom), "A", <<"192.0.2.2">>, 300)}
      [] zoneName = CorpTest ->
            {AxfrRR(Fqdn("app", CorpTest), "A", <<"192.0.2.10">>, 300),
             AxfrRR(Apex(CorpTest), "SOA",
                    <<"ns1", " ", "admin", " ", "1", " ", "2", " ", "3", " ", "4", " ", "5">>,
                    300)}
      [] OTHER -> {}

\* performAXFR: an error, or the records of the zone in transfer order
Transfers(zoneName) ==
    {[err |-> TRUE, rrs |-> <<>>]}
        \cup {[err |-> FALSE, rrs |-> rrs] :
                 rrs \in {q \in SeqsUpTo(ZoneRRs(zoneName), MaxTransfer) : NoRepeat(q)}}

\* the inventory records of the bulk path's model, by position in
\* InventoryRecords
AxfrInventoryIds == {1, 2, 7, 8, 14}
AxfrInventoryRecords ==
    InventoryRecords
        \o << Rec(14, "A", "db", Fqdn("db", SubCorpTest), <<"192.0.2.10">>, 0,
                  SubCorpTest, "internal", 300) >>
AxfrInventories ==
    {[i \in 1..Len(ix) |-> AxfrInventoryRecords[ix[i]]] :
        ix \in {q \in SeqsUpTo(AxfrInventoryIds, MaxRecords) : NoRepeat(q)}}

\* the zones of zonesByName, in the order the model starts their tasks
ZoneList == <<ExampleCom, CorpTest, SubCorpTest>>

\* the key "name|TYPE" of both maps
FqdnType(name, type) == <<name, ToUpper(type)>>

\* the keys of expectedRecordsMap
ExpectedKeys(recs) == {FqdnType(recs[i].FQDN, recs[i].Type) : i \in 1..Len(recs)}

\* expectedRecordsMap[key]: the last inventory record with that key
expectedRecordsMap(recs, key) ==
    recs[CHOOSE i \in 1..Len(recs) :
            /\ FqdnType(recs[i].FQDN, recs[i].Type) = key
            /\ \A j \in (i + 1)..Len(recs) : FqdnType(recs[j].FQDN, recs[j].Type) # key]

\* the keys of actualRecordsMap
ActualKeys(rrs) == {FqdnType(rrs[i].name, rrs[i].kind) : i \in 1..Len(rrs)}

\* actualRecordsMap[key]: the last transferred record with that key
actualRecordsMap(rrs, key) ==
    rrs[CHOOSE i \in 1..Len(rrs) :
            /\ FqdnType(rrs[i].name, rrs[i].kind) = key
            /\ \A j \in (i + 1)..Len(rrs) : FqdnType(rrs[j].name, rrs[j].kind) # key]

\* the nameservers that list the zone, whatever the view
RECURSIVE ZoneServersFrom(_, _)
ZoneServersFrom(zoneName, n) ==
    IF n > Len(nameservers) THEN <<>>
    ELSE (IF \E z \in 1..Len(nameservers[n].Zones) : nameservers[n].Zones[z].Name = zoneName
          THEN <<nameservers[n].Name>> ELSE <<>>) \o ZoneServersFrom(zoneName, n + 1)

ZoneServers(zoneName) == ZoneServersFrom(zoneName, 1)

extractRRValue(rr) ==
    IF rr.kind \in {"A", "AAAA", "CNAME", "NS", "PTR", "TXT"} THEN rr.value ELSE EmptyString

\* compareRecord(expected, actualRR)
compareRecord(expected, actualRR) ==
    [match |-> EqualFold(TrimSpace(expected.Value), TrimSpace(extractRRValue(actualRR))),
     ttlMismatch |-> expected.ZoneDefaultTTL # actualRR.ttl]

MissingRecord(fqdn, type, zone, value, ttl, server) ==
    [FQDN |-> fqdn, RecordType |-> type, ZoneName |-> zone, Value |-> value,
     TTL |-> ttl, Server |-> server]

\* One iteration of the loop over expectedRecordsMap in the task of a zone:
\* the channel the iteration sends to ("" for none) and what it sends.
CompareExpected(expectedRecord, key, rrs, zoneName, server, recSucc) ==
    IF ~HasSuffix(expectedRecord.FQDN, zoneName) THEN [chan |-> "", item |-> <<>>]
    ELSE IF key \notin ActualKeys(rrs)
    THEN [chan |-> "discrepancies",
          item |-> Discrepancy(expectedRecord.FQDN, expectedRecord.Type, zoneName,
                               StringPayload(expectedRecord.Value), StringPayload(EmptyString),
                               expectedRecord.ZoneDefaultTTL, 0, server,
                               "Record missing in DNS")]
    ELSE LET actualRR == actualRecordsMap(rrs, key)
             cmp == compareRecord(expectedRecord, actualRR)
         IN IF ~cmp.match \/ cmp.ttlMismatch
            THEN [chan |-> "discrepancies",
                  item |-> Discrepancy(expectedRecord.FQDN, expectedRecord.Type, zoneName,
                               StringPayload(expectedRecord.Value),
                               StringPayload(extractRRValue(actualRR)),
                               expectedRecord.ZoneDefaultTTL, actualRR.ttl, server,
                               "Record mismatch")]
            ELSE IF recSucc
            THEN [chan |-> "successful",
                  item |-> ValidationRecord(expectedRecord.FQDN, expectedRecord.Type, zoneName,
                               StringPayload(expectedRecord.Value),
                               StringPayload(extractRRValue(actualRR)),
                               expectedRecord.ZoneDefaultTTL, actualRR.ttl, server,
                               "Record validated successfully")]
            ELSE [chan |-> "", item |-> <<>>]

\* cap of the three channels
AxfrChanCapacity(recs) == Len(recs) * Len(servers)

\* the key files of the model and whether parseTSIGKeyFile fails on them
TsigKeyFiles ==
    {"", "tsig.key", "md5.key", "broken.key", "noname.key", "sha384.key", "noalg.key",
     "absent.key", "unreadable.key"}

\* a key file: whether os.Open and the scanner succeed on it, and its lines,
\* each trimmed and split into its words (quotes and semicolons left out)
KeyFile(opens, reads, lines) == [opens |-> opens, reads |-> reads, lines |-> lines]

KeyFileContent(file) ==
    CASE file = "tsig.key" ->
            KeyFile(TRUE, TRUE, << <<"#", "transfer", "key">>,
                                   <<"key", "transfer", "{">>,
                                   <<"algorithm", "hmac-sha256">>,
                                   <<"secret", "c2VjcmV0">>,
                                   <<"}">> >>)
      [] file = "md5.key" ->
            KeyFile(TRUE, TRUE, << <<"key", "transfer", "{">>,
                                   <<>>,
                                   <<"secret", "c2VjcmV0">>,
                                   <<"algorithm", "HMAC-MD5.SIG-ALG.REG.INT">> >>)
      [] file = "broken.key" ->
            KeyFile(TRUE, TRUE, << <<"key", "transfer", "{">>,
                                   <<"algorithm", "hmac-sha256">>,
                                   <<"secret">> >>)
      [] file = "noname.key" ->
            KeyFile(TRUE, TRUE, << <<"key{">>,
                                   <<"algorithm", "hmac-sha256">>,
                                   <<"secret", "c2VjcmV0">> >>)
      [] file = "sha384.key" ->
            KeyFile(TRUE, TRUE, << <<"key", "transfer", "{">>,
                                   <<"algorithm", "hmac-sha384">>,
                                   <<"secret", "c2VjcmV0">> >>)
      [] file = "noalg.key" ->
            KeyFile(TRUE, TRUE, << <<"key", "transfer", "{">>,
                                   <<"secret", "c2VjcmV0">> >>)
      [] file = "unreadable.key" ->
            KeyFile(TRUE, FALSE, << <<"key", "transfer", "{">>,
                                    <<"algorithm", "hmac-sha256">>,
                                    <<"secret", "c2VjcmV0">> >>)
      [] OTHER -> KeyFile(FALSE, FALSE, <<>>)

\* strings.ToUpper on an algorithm token
ToUpperAlgorithm(token) ==
    CASE token = "hmac-md5.sig-alg.reg.int" -> "HMAC-MD5.SIG-ALG.REG.INT"
      [] token = "hmac-sha1" -> "HMAC-SHA1"
      [] token = "hmac-sha256" -> "HMAC-SHA256"
      [] token = "Hmac-Sha256" -> "HMAC-SHA256"
      [] token = "hmac-sha384" -> "HMAC-SHA384"
      [] token = "hmac-sha512" -> "HMAC-SHA512"
      [] OTHER -> token

\* the word after the first occurrence of word in line, "" when there is none
WordAfter(line, word) ==
    LET at == CHOOSE i \in 1..Len(line) :
                 line[i] = word /\ \A j \in 1..(i - 1) : line[j] # word
    IN IF at < Len(line) THEN line[at + 1] ELSE ""

Contains(line, word) == \E i \in 1..Len(line) : line[i] = word

\* dnsutils.go 98-124: the scan of the lines; the last line of a kind wins
RECURSIVE ScanKeyLines(_, _, _, _, _)
ScanKeyLines(lines, i, name, secret, algorithm) ==
    IF i > Len(lines) THEN [name |-> name, secret |-> secret, algorithm |-> algorithm]
    ELSE LET line == lines[i]
         IN IF Len(line) = 0 \/ line[1] \in {"#", "//", "/*"}
            THEN ScanKeyLines(lines, i + 1, name, secret, algorithm)
            ELSE IF line[1] \in {"key", "key{"} /\ line[Len(line)] \in {"{", "key{"}
                 THEN ScanKeyLines(lines, i + 1,
                                   IF Len(line) >= 2 THEN line[2] ELSE name,
                                   secret, algorithm)
                 ELSE IF Contains(line, "algorithm")
                      THEN ScanKeyLines(lines, i + 1, name, secret,
                                        WordAfter(line, "algorithm"))
                      ELSE IF Contains(line, "secret")
                           THEN ScanKeyLines(lines, i + 1, name,
                                             WordAfter(line, "secret"), algorithm)
                           ELSE ScanKeyLines(lines, i + 1, name, secret, algorithm)

\* dns.HmacMD5, dns.HmacSHA1, dns.HmacSHA256, dns.HmacSHA512
HmacAlgorithm(token) ==
    CASE ToUpperAlgorithm(token) = "HMAC-MD5.SIG-ALG.REG.INT" -> "hmac-md5.sig-alg.reg.int."
      [] ToUpperAlgorithm(token) = "HMAC-SHA1" -> "hmac-sha1."
      [] ToUpperAlgorithm(token) = "HMAC-SHA256" -> "hmac-sha256."
      [] ToUpperAlgorithm(token) = "HMAC-SHA512" -> "hmac-sha512."
      [] OTHER -> ""

\* a parser that takes any algorithm token
parseTSIGKeyFile_AnyAlgorithm(file) ==
    LET scan == ScanKeyLines(file.lines, 1, "", "", "")
    IN IF ~file.opens \/ ~file.reads \/ scan.name = "" \/ scan.secret = ""
       THEN [err |-> TRUE, key |-> NilTSIGKey]
       ELSE [err |-> FALSE, key |-> TSIGKey(scan.name, scan.secret, scan.algorithm)]

\* parseTSIGKeyFile(filePath): (key, err)
parseTSIGKeyFile(file) ==
    LET scan == ScanKeyLines(file.lines, 1, "", "", "")
    IN IF ~file.opens \/ ~file.reads \/ scan.name = "" \/ scan.secret = ""
          \/ HmacAlgorithm(scan.algorithm) = ""
       THEN [err |-> TRUE, key |-> NilTSIGKey]
       ELSE [err |-> FALSE,
             key |-> TSIGKey(scan.name, scan.secret, HmacAlgorithm(scan.algorithm))]

\* validator.go 355-356: whether parseTSIGKeyFile returns an error
TsigParseFails(file) == parseTSIGKeyFile(KeyFileContent(file)).err

(***************************************************************************)
(* SpecAXFR: one call of validateAllRecordsAXFR.  One task per zone; the   *)
(* loops over the two maps run in any order (Go map iteration); a send     *)
(* waits while its channel is full; nothing receives before wg.Wait has    *)
(* returned.                                                               *)
(***************************************************************************)
AXFRInit ==
    /\ FqdnIdle
    /\ RunIdle
    /\ PtrIdle
    /\ ScriptIdle
    /\ CallIdle
    /\ RetryIdle
    /\ useAXFR = TRUE
    /\ validateSOA = "false"
    /\ axRecords \in AxfrInventories
    /\ axZoneFilter \in {EmptyString, CorpTest}
    /\ axRecordSuccessful \in BOOLEAN
    /\ axTsigKeyFile \in TsigKeyFiles
    /\ tsigKey = NilTSIGKey
    /\ axMain = "start"
    /\ axTasks = <<>>
    /\ axDiscrepanciesChan = <<>>
    /\ axSuccessfulChan = <<>>
    /\ axMissingChan = <<>>
    /\ axDiscrepancies = <<>>
    /\ axSuccessful = <<>>
    /\ axMissing = <<>>

axInputs == <<axRecords, axZoneFilter, axRecordSuccessful, axTsigKeyFile>>
axChans == <<axDiscrepanciesChan, axSuccessfulChan, axMissingChan>>
axResults == <<axDiscrepancies, axSuccessful, axMissing>>

\* lines 352-361: an unusable key file ends the call with nil results
AXFRKeyFileError ==
    /\ axMain = "start"
    /\ useAXFR
    /\ axTsigKeyFile # "" /\ TsigParseFails(axTsigKeyFile)
    /\ axMain' = "returned"
    /\ UNCHANGED <<axInputs, tsigKey, axTasks, axChans, axResults>>
    /\ UNCHANGED notAxfrVars

\* lines 363-488: the map of expected records is built and one task per
\* zone that passes the zone filter is started
AXFRStartTasks ==
    /\ axMain = "start"
    /\ useAXFR
    /\ ~(axTsigKeyFile # "" /\ TsigParseFails(axTsigKeyFile))
    /\ axTasks' = [n \in 1..Len(SelectSeq(ZoneList,
                        LAMBDA z : ~(axZoneFilter # EmptyString /\ z # axZoneFilter))) |->
                     [zoneName |-> SelectSeq(ZoneList,
                          LAMBDA z : ~(axZoneFilter # EmptyString /\ z # axZoneFilter))[n],
                      pc |-> "start", server |-> "", err |-> FALSE, rrs |-> <<>>,
                      expectedLeft |-> {}, actualLeft |-> {}]]
    /\ tsigKey' = IF axTsigKeyFile # ""
                  THEN parseTSIGKeyFile(KeyFileContent(axTsigKeyFile)).key
                  ELSE NilTSIGKey
    /\ axMain' = "waiting"
    /\ UNCHANGED <<axInputs, axChans, axResults>>
    /\ UNCHANGED notAxfrVars

\* lines 381-412: the task picks the zone's first nameserver and transfers
\* the zone; without nameserver or on a failed transfer the task ends
AXFRTaskTransfer(t) ==
    /\ axMain = "waiting"
    /\ axTasks[t].pc = "start"
    /\ LET recordServers == ZoneServers(axTasks[t].zoneName)
       IN IF Len(recordServers) = 0
          THEN axTasks' = [axTasks EXCEPT ![t].pc = "done"]
          ELSE \E axfr \in Transfers(axTasks[t].zoneName) :
                  axTasks' = [axTasks EXCEPT ![t] =
                      [@ EXCEPT !.server = recordServers[1],
                                !.err = axfr.err,
                                !.rrs = axfr.rrs,
                                !.pc = IF axfr.err THEN "done" ELSE "compare",
                                !.expectedLeft = IF axfr.err THEN {} ELSE ExpectedKeys(axRecords),
                                !.actualLeft = IF axfr.err THEN {} ELSE ActualKeys(axfr.rrs)]]
    /\ UNCHANGED <<axInputs, tsigKey, axMain, axChans, axResults>>
    /\ UNCHANGED notAxfrVars

\* lines 414-469: one iteration of the loop over expectedRecordsMap
AXFRTaskCompare(t) ==
    /\ axMain = "waiting"
    /\ axTasks[t].pc = "compare"
    /\ \E key \in axTasks[t].expectedLeft :
         LET out == CompareExpected(expectedRecordsMap(axRecords, key), key, axTasks[t].rrs,
                                    axTasks[t].zoneName, axTasks[t].server,
                                    axRecordSuccessful)
         IN /\ CASE out.chan = "discrepancies" ->
                      /\ Len(axDiscrepanciesChan) < AxfrChanCapacity(axRecords)
                      /\ axDiscrepanciesChan' = Append(axDiscrepanciesChan, out.item)
                      /\ UNCHANGED axSuccessfulChan
                 [] out.chan = "successful" ->
                      /\ Len(axSuccessfulChan) < AxfrChanCapacity(axRecords)
                      /\ axSuccessfulChan' = Append(axSuccessfulChan, out.item)
                      /\ UNCHANGED axDiscrepanciesChan
                 [] OTHER -> UNCHANGED <<axDiscrepanciesChan, axSuccessfulChan>>
            /\ axTasks' = [axTasks EXCEPT ![t].expectedLeft = @ \ {key}]
    /\ UNCHANGED <<axInputs, tsigKey, axMain, axMissingChan, axResults>>
    /\ UNCHANGED notAxfrVars

\* lines 471-485: one iteration of the loop over actualRecordsMap
AXFRTaskExtra(t) ==
    /\ axMain = "waiting"
    /\ axTasks[t].pc = "compare"
    /\ axTasks[t].expectedLeft = {}
    /\ \E key \in axTasks[t].actualLeft :
         LET rr == actualRecordsMap(axTasks[t].rrs, key)
         IN /\ IF key \notin ExpectedKeys(axRecords)
               THEN /\ Len(axMissingChan) < AxfrChanCapacity(axRecords)
                    /\ axMissingChan' = Append(axMissingChan,
                          MissingRecord(rr.name, rr.kind, axTasks[t].zoneName,
                                        extractRRValue(rr), rr.ttl, axTasks[t].server))
               ELSE UNCHANGED axMissingChan
            /\ axTasks' = [axTasks EXCEPT ![t].actualLeft = @ \ {key}]
    /\ UNCHANGED <<axInputs, tsigKey, axMain, axDiscrepanciesChan, axSuccessfulChan, axResults>>
    /\ UNCHANGED notAxfrVars

\* line 379: wg.Done when both loops are through
AXFRTaskDone(t) ==
    /\ axMain = "waiting"
    /\ axTasks[t].pc = "compare"
    /\ axTasks[t].expectedLeft = {}
    /\ axTasks[t].actualLeft = {}
    /\ axTasks' = [axTasks EXCEPT ![t].pc = "done"]
    /\ UNCHANGED <<axInputs, tsigKey, axMain, axChans, axResults>>
    /\ UNCHANGED notAxfrVars

\* lines 490-510: wg.Wait, the channels are closed and drained
AXFRMainCollect ==
    /\ axMain = "waiting"
    /\ \A t \in 1..Len(axTasks) : axTasks[t].pc = "done"
    /\ axDiscrepancies' = axDiscrepanciesChan
    /\ axSuccessful' = axSuccessfulChan
    /\ axMissing' = axMissingChan
    /\ axDiscrepanciesChan' = <<>>
    /\ axSuccessfulChan' = <<>>
    /\ axMissingChan' = <<>>
    /\ axMain' = "returned"
    /\ UNCHANGED <<axInputs, tsigKey, axTasks>>
    /\ UNCHANGED notAxfrVars

AXFRNext ==
    \/ AXFRKeyFileError
    \/ AXFRStartTasks
    \/ \E t \in 1..Len(axTasks) : AXFRTaskTransfer(t)
    \/ \E t \in 1..Len(axTasks) : AXFRTaskCompare(t)
    \/ \E t \in 1..Len(axTasks) : AXFRTaskExtra(t)
    \/ \E t \in 1..Len(axTasks) : AXFRTaskDone(t)
    \/ AXFRMainCollect

SpecAXFR == AXFRInit /\ [][AXFRNext]_vars

(***************************************************************************)
(* SpecMain: main's choice of the validation paths (main.go 290-323).  A   *)
(* run has either value of use-axfr and any value of validate-soa; the     *)
(* bulk path and the per-record path get the same records, zone filter and *)
(* recordSuccessful.  The per-record and the SOA path are the actions of   *)
(* Spec, the bulk path the actions of SpecAXFR.                            *)
(***************************************************************************)
MainInit ==
    /\ FqdnIdle
    /\ PtrIdle
    /\ ScriptIdle
    /\ CallIdle
    /\ RetryIdle
    /\ useAXFR \in BOOLEAN
    /\ validateSOA \in ValidateSOAFlags
    /\ soaValidationMode = parseSOAValidationMode(validateSOA)
    /\ IF useAXFR
       THEN /\ records \in AxfrInventories
            /\ zoneFilter \in {EmptyString, CorpTest}
            /\ viewFilter = ""
            /\ recordSuccessful = TRUE
            /\ ignoreSerialNumbers = FALSE
            /\ axTsigKeyFile \in {"", "broken.key"}
       ELSE /\ records \in Inventories
            /\ \E f \in Filters : zoneFilter = f[1] /\ viewFilter = f[2]
            /\ recordSuccessful \in BOOLEAN
            /\ ignoreSerialNumbers \in BOOLEAN
            /\ axTsigKeyFile = ""
    /\ mainPc = "start"
    /\ tasks = <<>>
    /\ discrepanciesChan = <<>>
    /\ successfulChan = <<>>
    /\ discrepancies = <<>>
    /\ successfulValidations = <<>>
    /\ queries = {}
    /\ axRecords = records
    /\ axZoneFilter = zoneFilter
    /\ axRecordSuccessful = recordSuccessful
    /\ tsigKey = NilTSIGKey
    /\ axMain = "start"
    /\ axTasks = <<>>
    /\ axDiscrepanciesChan = <<>>
    /\ axSuccessfulChan = <<>>
    /\ axMissingChan = <<>>
    /\ axDiscrepancies = <<>>
    /\ axSuccessful = <<>>
    /\ axMissing = <<>>

MainNext ==
    \/ Next
    \/ AXFRNext

SpecMain == MainInit /\ [][MainNext]_vars

(***************************************************************************)
(* Properties of the path selection (checked under SpecMain).              *)
(***************************************************************************)
\* the per-record path has not acted: no task, no query, nothing collected
NoRecordPath ==
    /\ mainPc = "start"
    /\ tasks = <<>>
    /\ queries = {}
    /\ discrepancies = <<>> /\ successfulValidations = <<>>
    /\ discrepanciesChan = <<>> /\ successfulChan = <<>>

\* the bulk path has not acted
NoBulkPath ==
    /\ axMain = "start"
    /\ axTasks = <<>>
    /\ axDiscrepancies = <<>> /\ axSuccessful = <<>> /\ axMissing = <<>>
    /\ axDiscrepanciesChan = <<>> /\ axSuccessfulChan = <<>> /\ axMissingChan = <<>>

\* nothing of type SOA has been queried or reported
NothingOfSOA ==
    /\ \A q \in queries : ToUpper(q.key.RecordType) # "SOA"
    /\ \A t \in 1..Len(tasks) : ToUpper(tasks[t].key.RecordType) # "SOA"
    /\ \A k \in 1..Len(discrepancies) : ToUpper(discrepancies[k].RecordType) # "SOA"
    /\ \A k \in 1..Len(successfulValidations) :
          ToUpper(successfulValidations[k].RecordType) # "SOA"
    /\ \A k \in 1..Len(discrepanciesChan) : ToUpper(discrepanciesChan[k].RecordType) # "SOA"
    /\ \A k \in 1..Len(successfulChan) : ToUpper(successfulChan[k].RecordType) # "SOA"

\* the paths that run under the SOA mode `mode`
PathsOfMode(mode) ==
    /\ useAXFR => /\ NoRecordPath
                  /\ ~ENABLED Next
    /\ ~useAXFR =>
          /\ NoBulkPath
          /\ ~ENABLED AXFRNext
          /\ mainPc = "start" =>
                /\ ENABLED MainValidateAllRecords <=> mode # "only"
                /\ ENABLED MainSkipAllRecords <=> mode = "only"
          /\ mainPc = "waitRecords" => mode # "only"
          /\ mainPc = "afterRecords" =>
                /\ ENABLED MainValidateSOARecords <=> mode # "false"
                /\ ENABLED MainSkipSOARecords <=> mode = "false"
          /\ mainPc = "waitSOA" => mode # "false"
          /\ mainPc \in {"start", "waitRecords", "afterRecords"} => NothingOfSOA
          /\ (mainPc = "finished" /\ mode = "false") => NothingOfSOA
          /\ (mainPc \in {"waitSOA", "finished"} /\ mode = "only") =>
                \A q \in queries : ToUpper(q.key.RecordType) = "SOA"
    /\ (axMissing # <<>> \/ axMissingChan # <<>>) => useAXFR

\* C18: with use-axfr only the bulk path runs; otherwise the per-record path
\* runs iff the SOA mode is not "only" and the SOA path iff it is not
\* "false", where every value of validate-soa other than "true" and "only"
\* is mode "false"; the per-record path validates no SOA record, and
\* MissingRecords exist only in a bulk run.
C18_PathSelection ==
    PathsOfMode(IF validateSOA \in {"true", "only"} THEN validateSOA ELSE "false")

\* C18 (amended): the same, where the value of validate-soa is compared
\* ignoring letter case: "TRUE" is mode "true"
C18_PathSelectionIgnoringCase ==
    PathsOfMode(IF ToLowerFlag(validateSOA) \in {"true", "only"}
                THEN ToLowerFlag(validateSOA) ELSE "false")

\* a finished run without use-axfr and with validate-soa "TRUE", in which
\* both the per-record path and the SOA path have queried a server
C18_Witness ==
    /\ ~useAXFR
    /\ validateSOA = "TRUE"
    /\ mainPc = "finished"
    /\ \E q \in queries : ToUpper(q.key.RecordType) = "SOA"
    /\ \E q \in queries : ToUpper(q.key.RecordType) # "SOA"

(***************************************************************************)
(* Properties of the bulk path (checked under SpecAXFR).                   *)
(***************************************************************************)
\* the MissingRecords, collected or in flight, that report the transferred
\* record rr
MissingReportsOf(rr) ==
    {m \in 1..Len(axMissing \o axMissingChan) :
        LET mr == (axMissing \o axMissingChan)[m]
        IN mr.FQDN = rr.name /\ mr.RecordType = rr.kind
           /\ mr.Value = extractRRValue(rr) /\ mr.TTL = rr.ttl}

\* a transferred record in the right place: an orphan in no Discrepancy and,
\* once the call has returned, in exactly one MissingRecord; a record with an
\* inventory key in no MissingRecord
TransferredRecordPlaced(rr) ==
    IF FqdnType(rr.name, rr.kind) \notin ExpectedKeys(axRecords)
    THEN /\ \A d \in SeqRange(axDiscrepancies \o axDiscrepanciesChan) :
               ~(d.FQDN = rr.name /\ ToUpper(d.RecordType) = rr.kind)
         /\ axMain = "returned" => Cardinality(MissingReportsOf(rr)) = 1
    ELSE \A mr \in SeqRange(axMissing \o axMissingChan) :
               ~(mr.FQDN = rr.name /\ mr.RecordType = rr.kind)

\* C4: every record a zone transfer of the run returned whose (name, type) key
\* matches no inventory record is in exactly one MissingRecord of the returned
\* result and in no Discrepancy; a transferred record whose key matches an
\* inventory record is in no MissingRecord.
C4_OrphansReportedOnce ==
    \A t \in 1..Len(axTasks) :
        \A i \in 1..Len(axTasks[t].rrs) : TransferredRecordPlaced(axTasks[t].rrs[i])

\* C4 for transfers that hold one record per (name, type) key
C4_SingleValuedTransfers ==
    \A t \in 1..Len(axTasks) :
        Cardinality(ActualKeys(axTasks[t].rrs)) = Len(axTasks[t].rrs) =>
            \A i \in 1..Len(axTasks[t].rrs) : TransferredRecordPlaced(axTasks[t].rrs[i])

\* C5: the call never comes to a halt before it has returned: as long as
\* validateAllRecordsAXFR has not returned, main or some task can take a step
\* (no task waits forever on a full channel).
C5_RunAlwaysCompletes == axMain = "returned" \/ ENABLED AXFRNext

\* a task waits to send while its channel is full
TaskBlockedOnFullChannel(t) ==
    /\ axTasks[t].pc = "compare"
    /\ ~ENABLED AXFRTaskCompare(t)
    /\ ~ENABLED AXFRTaskExtra(t)
    /\ ~ENABLED AXFRTaskDone(t)

\* C5 for runs whose results fit the channels: at most as many orphan
\* records as the channel capacity
C5_CompletesWithinCapacity ==
    (\A t \in 1..Len(axTasks) : ~TaskBlockedOnFullChannel(t))
        => (axMain = "returned" \/ ENABLED AXFRNext)

\* the zones whose transfer succeeded in the run
TransferredTasks ==
    {t \in 1..Len(axTasks) :
        axTasks[t].pc = "done" /\ ~axTasks[t].err /\ axTasks[t].server # ""}

\* the Discrepancies / Successes of the returned result for inventory record r
\* in the zone of task t
AxfrOutcomes(results, r, t) ==
    SelectSeq(results,
              LAMBDA d : /\ d.FQDN = r.FQDN
                         /\ d.RecordType = r.Type
                         /\ d.ZoneName = axTasks[t].zoneName
                         /\ d.Expected = StringPayload(r.Value))

\* the transferred records of task t with the (FQDN, type) key of r
SameKeyRRs(r, t) ==
    {j \in 1..Len(axTasks[t].rrs) :
        FqdnType(axTasks[t].rrs[j].name, axTasks[t].rrs[j].kind) = FqdnType(r.FQDN, r.Type)}

\* value and TTL of a transferred record are the ones of inventory record r
AxfrMatches(r, rr) ==
    /\ EqualFold(TrimSpace(r.Value), TrimSpace(extractRRValue(rr)))
    /\ r.ZoneDefaultTTL = rr.ttl

\* inventory record r of the zone of task t has exactly the outcome of its
\* class: missing, mismatch or match
AxfrClassified(r, t) ==
    LET discs == AxfrOutcomes(axDiscrepancies, r, t)
        succs == AxfrOutcomes(axSuccessful, r, t)
        same == SameKeyRRs(r, t)
        missing == /\ Len(discs) = 1
                   /\ discs[1].Message = "Record missing in DNS"
                   /\ Len(succs) = 0
        mismatch == /\ Len(discs) = 1
                    /\ discs[1].Message = "Record mismatch"
                    /\ Len(succs) = 0
        match == /\ Len(discs) = 0
                 /\ Len(succs) = (IF axRecordSuccessful THEN 1 ELSE 0)
    IN IF same = {} THEN missing
       ELSE IF \A j \in same : ~AxfrMatches(r, axTasks[t].rrs[j]) THEN mismatch
       ELSE IF \A j \in same : AxfrMatches(r, axTasks[t].rrs[j]) THEN match
       ELSE mismatch \/ match

\* C14: when validateAllRecordsAXFR has returned, every inventory record of a
\* zone that was transferred has exactly one outcome: a Discrepancy "Record
\* missing in DNS" when no transferred record has its (FQDN, type) key, a
\* Discrepancy "Record mismatch" when the transferred record with that key
\* differs in value or TTL, and otherwise no Discrepancy and a Success exactly
\* when success-recording is enabled.
C14_EveryRecordClassified ==
    axMain = "returned" =>
      \A t \in TransferredTasks :
        \A i \in 1..Len(axRecords) :
           axRecords[i].ZoneName = axTasks[t].zoneName => AxfrClassified(axRecords[i], t)

\* C14 for zones whose name ends with a dot and inventory records with
\* distinct (FQDN, type) keys
C14_DotTerminatedZones ==
    axMain = "returned" =>
      \A t \in TransferredTasks :
        \A i \in 1..Len(axRecords) :
           (/\ axRecords[i].ZoneName = axTasks[t].zoneName
            /\ HasSuffixDot(axTasks[t].zoneName)
            /\ Cardinality(ExpectedKeys(axRecords)) = Len(axRecords))
             => AxfrClassified(axRecords[i], t)

\* C15 (bulk path): when validateAllRecordsAXFR has returned, every inventory
\* record of a zone whose transfer failed is in a Discrepancy of the result.
C15_TransferFailureSurfaced ==
    axMain = "returned" =>
      \A t \in 1..Len(axTasks) :
         axTasks[t].err =>
            \A i \in 1..Len(axRecords) :
               axRecords[i].ZoneName = axTasks[t].zoneName =>
                  \E k \in 1..Len(axDiscrepancies) :
                     /\ axDiscrepancies[k].FQDN = axRecords[i].FQDN
                     /\ axDiscrepancies[k].ZoneName = axTasks[t].zoneName

\* C15 without the Discrepancy: a failed transfer ends the zone's task, the
\* other zones are still processed and the call can go on
C15_TransferFailureNotFatal ==
    \A t \in 1..Len(axTasks) :
       axTasks[t].err =>
          /\ axTasks[t].pc = "done"
          /\ axMain = "waiting" =>
               \/ \A u \in 1..Len(axTasks) : axTasks[u].pc = "done"
               \/ \E u \in 1..Len(axTasks) : u # t /\ axTasks[u].pc # "done"

\* the algorithm tokens parseTSIGKeyFile supports, in upper case
SupportedAlgorithms ==
    {"HMAC-MD5.SIG-ALG.REG.INT", "HMAC-SHA1", "HMAC-SHA256", "HMAC-SHA512"}

\* whether the configured key file opens, reads and gives a non-empty key
\* name, a non-empty secret and a supported algorithm token
UsableKeyFile ==
    LET file == KeyFileContent(axTsigKeyFile)
        scan == ScanKeyLines(file.lines, 1, "", "", "")
    IN /\ file.opens /\ file.reads
       /\ scan.name # ""
       /\ scan.secret # ""
       /\ ToUpperAlgorithm(scan.algorithm) \in SupportedAlgorithms

\* C20: parseTSIGKeyFile returns a key only for a non-empty key name, a
\* non-empty secret and one of the four supported algorithm tokens in any
\* letter case, and an error otherwise; with a key file configured and the
\* parse failed the bulk path starts no zone transfer and returns no
\* Discrepancy, Success or MissingRecord.
C20_TSIGKeyParsing ==
    (axTsigKeyFile # "" /\ axMain # "start") =>
       /\ ~tsigKey.nil => UsableKeyFile
       /\ ~UsableKeyFile =>
             /\ tsigKey.nil
             /\ axMain = "returned"
             /\ axTasks = <<>>
             /\ axDiscrepanciesChan = <<>> /\ axSuccessfulChan = <<>> /\ axMissingChan = <<>>
             /\ axDiscrepancies = <<>> /\ axSuccessful = <<>> /\ axMissing = <<>>

\* the bulk path has returned on a key file with an unsupported algorithm
C20_Witness ==
    /\ axTsigKeyFile = "sha384.key"
    /\ Len(axRecords) > 0
    /\ axMain = "returned"
    /\ tsigKey.nil
    /\ axTasks = <<>>

(***************************************************************************)
(* Script generation (nsupdate.go).  A line of a script is the tuple of    *)
(* the parts its format string joins with blanks.                          *)
(***************************************************************************)
MaxValues == 2       \* values in the Expected or the Actual list of a Discrepancy

\* a membership test that compares the strings as they are
stringInSlice_Exact(str, list) == \E i \in 1..Len(list) : list[i] = str

stringInSlice(str, list) ==
    \E i \in 1..Len(list) : EqualFold(TrimSpace(list[i]), TrimSpace(str))

recordsEqual(expected, actual) ==
    CASE expected.kind = "list" ->
            actual.kind = "list" /\ stringSlicesEqualUnordered(expected.v, actual.v)
      [] expected.kind = "soa" -> actual.kind = "soa" /\ expected.v = actual.v
      [] OTHER -> FALSE

UpdateDelete(fqdn, type, val) == <<"update", "delete", fqdn, type, val>>
UpdateAdd(fqdn, ttl, type, val) == <<"update", "add", fqdn, ttl, type, val>>
UpdateDeleteSOA(fqdn) == <<"update", "delete", fqdn, "SOA">>
SendLine == <<"send">>

\* %d of an SOA counter
FormatUint(n) ==
    CASE n = 1 -> "1" [] n = 2 -> "2" [] n = 3 -> "3" [] n = 4 -> "4"
      [] n = 5 -> "5" [] n = 9 -> "9" [] OTHER -> "0"

\* the SOA record string of lines 128-129
SOAValueString(soa) ==
    soa.MName \o <<" ">> \o soa.RName
        \o <<" ", FormatUint(soa.Serial), " ", FormatUint(soa.Refresh), " ",
             FormatUint(soa.Retry), " ", FormatUint(soa.Expire), " ",
             FormatUint(soa.Minimum)>>

RECURSIVE TTLOnlyCommands_AddOnly(_, _, _)
\* a TTL update that only adds
TTLOnlyCommands_AddOnly(d, expectedValues, i) ==
    IF i > Len(expectedValues) THEN <<>>
    ELSE <<UpdateAdd(d.FQDN, d.ExpectedTTL, d.RecordType, expectedValues[i])>>
            \o TTLOnlyCommands_AddOnly(d, expectedValues, i + 1)

RECURSIVE TTLOnlyCommands(_, _, _)
\* lines 99-102: delete and add of every expected value
TTLOnlyCommands(d, expectedValues, i) ==
    IF i > Len(expectedValues) THEN <<>>
    ELSE <<UpdateDelete(d.FQDN, d.RecordType, expectedValues[i]),
           UpdateAdd(d.FQDN, d.ExpectedTTL, d.RecordType, expectedValues[i])>>
            \o TTLOnlyCommands(d, expectedValues, i + 1)

RECURSIVE DeleteCommands(_, _, _, _)
\* lines 107-111: delete unexpected records
DeleteCommands(d, expectedValues, actualValues, i) ==
    IF i > Len(actualValues) THEN <<>>
    ELSE (IF ~stringInSlice(actualValues[i], expectedValues)
          THEN <<UpdateDelete(d.FQDN, d.RecordType, actualValues[i])>> ELSE <<>>)
            \o DeleteCommands(d, expectedValues, actualValues, i + 1)

RECURSIVE AddCommands(_, _, _, _)
\* lines 114-118: add missing records
AddCommands(d, expectedValues, actualValues, i) ==
    IF i > Len(expectedValues) THEN <<>>
    ELSE (IF ~stringInSlice(expectedValues[i], actualValues)
          THEN <<UpdateAdd(d.FQDN, d.ExpectedTTL, d.RecordType, expectedValues[i])>>
          ELSE <<>>)
            \o AddCommands(d, expectedValues, actualValues, i + 1)

\* lines 76-137: the commands written for one Discrepancy
DiscrepancyCommands(d) ==
    IF d.Expected.kind = "nil" THEN <<>>
    ELSE IF d.RecordType \in {"A", "AAAA", "CNAME", "PTR", "NS"}
    THEN IF d.Expected.kind # "list" THEN <<>>
         ELSE LET expectedValues == d.Expected.v
                  actualValues == IF d.Actual.kind = "list" THEN d.Actual.v ELSE <<>>
              IN IF stringSlicesEqualUnordered(expectedValues, actualValues)
                    /\ d.ExpectedTTL # d.ActualTTL
                 THEN TTLOnlyCommands(d, expectedValues, 1)
                 ELSE DeleteCommands(d, expectedValues, actualValues, 1)
                         \o AddCommands(d, expectedValues, actualValues, 1)
    ELSE IF d.RecordType = "SOA"
    THEN IF d.Expected.kind # "soa" THEN <<>>
         ELSE <<UpdateDeleteSOA(d.FQDN),
                UpdateAdd(d.FQDN, d.ExpectedTTL, "SOA", SOAValueString(d.Expected.v[1]))>>
    ELSE <<>>

RECURSIVE ScriptLines(_, _)
ScriptLines(ds, i) ==
    IF i > Len(ds) THEN <<>> ELSE DiscrepancyCommands(ds[i]) \o ScriptLines(ds, i + 1)

\* serverDiscrepancies[server]
serverDiscrepancies(ds, server) == SelectSeq(ds, LAMBDA d : d.Server = server)

\* generateNSUpdateScriptForDiscrepancies: the files written, one per server
\* whose file can be created
generateNSUpdateScriptForDiscrepancies(ds, filenamePrefix, createFails) ==
    IF Len(ds) = 0 THEN {}
    ELSE {[name |-> <<filenamePrefix, server>>,
           lines |-> Append(ScriptLines(serverDiscrepancies(ds, server), 1), SendLine)] :
             server \in {ds[i].Server : i \in 1..Len(ds)} \ createFails}

(***************************************************************************)
(* The Discrepancy lists handed to generateNSUpdateScripts.  A list holds  *)
(* at most one Discrepancy of www.example.com. A on ns1, in any shape the  *)
(* per-record path builds, and at most one of the other producers.         *)
(***************************************************************************)
ScriptValues == {<<"192.0.2.10">>, <<"192.0.2.2">>}
ValueLists == SeqsUpTo(ScriptValues, MaxValues)
ObservedTTLs == {300, 3600}

\* validateRecordsForFQDN for www.example.com. A on ns1: query error, empty
\* answer, and an answer whose values or TTL differ
AddressDiscrepancies ==
    LET fqdn == Fqdn("www", ExampleCom)
        D(e, a, ettl, attl, msg) ==
            Discrepancy(fqdn, "A", ExampleCom, ListPayload(e), a, ettl, attl, "ns1", msg)
    IN UNION {
         {D(e, NilPayload, 0, 0, "DNS query error"),
          D(e, ListPayload(<<>>), 3600, 0, "Record missing")}
         \cup {D(e, ListPayload(a), 3600, attl, "") :
                 a \in ValueLists \ {<<>>}, attl \in ObservedTTLs}
         : e \in ValueLists \ {<<>>} }

\* a Discrepancy is one only when the values or the TTL differ
IsDiscrepancy(d) ==
    \/ d.Expected.kind # "list" \/ d.Actual.kind # "list"
    \/ ~stringSlicesEqualUnordered(d.Expected.v, d.Actual.v)
    \/ d.ExpectedTTL # d.ActualTTL

ExampleSOA == SOARecord(Fqdn("ns1", ExampleCom), Fqdn("admin", ExampleCom), 2, 3, 4, 5, 9)

\* Discrepancies of the other producers
OtherDiscrepancies ==
    LET alias == Fqdn("alias", ExampleCom)
        host == Fqdn("host", ExampleCom)
        HOST == <<"HOST", ".">> \o ExampleCom \o <<".">>
        other == Fqdn("other", ExampleCom)
    IN { \* a CNAME answer that differs from the inventory in letter case only
         Discrepancy(alias, "CNAME", ExampleCom, ListPayload(<<host>>),
                     ListPayload(<<HOST>>), 3600, 3600, "ns1", ""),
         \* a CNAME answer with another target
         Discrepancy(alias, "CNAME", ExampleCom, ListPayload(<<host>>),
                     ListPayload(<<other>>), 3600, 3600, "ns1", ""),
         \* a CNAME answer with the TTL off, on the second server
         Discrepancy(alias, "CNAME", ExampleCom, ListPayload(<<host>>),
                     ListPayload(<<host>>), 3600, 300, "ns2", ""),
         \* a TXT unit: its answers are never extracted
         Discrepancy(Fqdn("info", ExampleCom), "TXT", ExampleCom,
                     ListPayload(<<<<"hello">>>>), ListPayload(<<>>), 3600, 0, "ns1", ""),
         \* validateSOARecord: the serial differs
         Discrepancy(Apex(ExampleCom), "SOA", EmptyString, SoaPayload(ExampleSOA),
                     SoaPayload([ExampleSOA EXCEPT !.Serial = 1]), 3600, 3600, "ns1", ""),
         \* validateRecordsAXFR: the payloads are single strings
         Discrepancy(Fqdn("app", CorpTest), "A", CorpTest, StringPayload(<<"192.0.2.10">>),
                     StringPayload(<<"192.0.2.10">>), 3600, 300, "ns1", "TTL mismatch"),
         \* the unknown-type short circuit
         UnknownTypeDiscrepancy(RecordKey(Fqdn("odd", ExampleCom), "BOGUS", ExampleCom,
                                          "default"), <<<<"x">>>>),
         \* an inventory SOA value that does not parse
         InvalidSOADiscrepancy([FQDN |-> Apex(CorpTest)]) }

ScriptInputs ==
    {<<>>}
    \cup {<<f>> : f \in {d \in AddressDiscrepancies : IsDiscrepancy(d)}}
    \cup {<<s>> : s \in OtherDiscrepancies}
    \cup UNION {{<<f, s>>, <<s, f>>} :
                  f \in {d \in AddressDiscrepancies : IsDiscrepancy(d)},
                  s \in OtherDiscrepancies}

\* the servers whose script files os.Create cannot create
CreateFailures == {{}, {"ns2"}}

(***************************************************************************)
(* Specification SpecScript: one call of generateNSUpdateScripts.          *)
(***************************************************************************)
ScriptInit ==
    /\ scDiscrepancies \in ScriptInputs
    /\ scCreateFails \in CreateFailures
    /\ scPc = "start"
    /\ recordDiscrepancies = <<>>
    /\ ttlDiscrepancies = <<>>
    /\ scFiles = {}
    /\ FqdnIdle /\ RunIdle /\ PtrIdle /\ AxfrIdle /\ CallIdle /\ FlagsIdle

\* lines 15-18: nothing to write
ScriptEmpty ==
    /\ scPc = "start"
    /\ Len(scDiscrepancies) = 0
    /\ scPc' = "returned"
    /\ UNCHANGED <<scDiscrepancies, scCreateFails, recordDiscrepancies,
                   ttlDiscrepancies, scFiles>>
    /\ UNCHANGED notScriptVars

\* lines 21-24: the output directory cannot be created
ScriptMkdirFails ==
    /\ scPc = "start"
    /\ Len(scDiscrepancies) > 0
    /\ scPc' = "failed"
    /\ UNCHANGED <<scDiscrepancies, scCreateFails, recordDiscrepancies,
                   ttlDiscrepancies, scFiles>>
    /\ UNCHANGED notScriptVars

\* lines 26-36: separate record mismatches from TTL mismatches
ScriptSeparate ==
    /\ scPc = "start"
    /\ Len(scDiscrepancies) > 0
    /\ ttlDiscrepancies' =
           SelectSeq(scDiscrepancies,
                     LAMBDA d : recordsEqual(d.Expected, d.Actual)
                                /\ d.ExpectedTTL # d.ActualTTL)
    /\ recordDiscrepancies' =
           SelectSeq(scDiscrepancies,
                     LAMBDA d : ~(recordsEqual(d.Expected, d.Actual)
                                  /\ d.ExpectedTTL # d.ActualTTL))
    /\ scPc' = "records"
    /\ UNCHANGED <<scDiscrepancies, scCreateFails, scFiles>>
    /\ UNCHANGED notScriptVars

\* line 39: the scripts of the record mismatches
ScriptWriteRecords ==
    /\ scPc = "records"
    /\ scFiles' = scFiles \cup generateNSUpdateScriptForDiscrepancies(
                                   recordDiscrepancies, "nsupdate_records", scCreateFails)
    /\ scPc' = "ttls"
    /\ UNCHANGED <<scDiscrepancies, scCreateFails, recordDiscrepancies, ttlDiscrepancies>>
    /\ UNCHANGED notScriptVars

\* line 45: the scripts of the TTL mismatches
ScriptWriteTTLs ==
    /\ scPc = "ttls"
    /\ scFiles' = scFiles \cup generateNSUpdateScriptForDiscrepancies(
                                   ttlDiscrepancies, "nsupdate_ttls", scCreateFails)
    /\ scPc' = "returned"
    /\ UNCHANGED <<scDiscrepancies, scCreateFails, recordDiscrepancies, ttlDiscrepancies>>
    /\ UNCHANGED notScriptVars

ScriptNext ==
    \/ ScriptEmpty
    \/ ScriptMkdirFails
    \/ ScriptSeparate
    \/ ScriptWriteRecords
    \/ ScriptWriteTTLs

SpecScript == ScriptInit /\ [][ScriptNext]_vars

(***************************************************************************)
(* Properties of the generated scripts.                                    *)
(***************************************************************************)
AddressTypes == {"A", "AAAA", "CNAME", "PTR", "NS"}

\* the script files of a name
ScriptOf(prefix, server) == {f \in scFiles : f.name = <<prefix, server>>}

\* whether a line is an update command for the record set of d
IsCommandOf(l, d) ==
    /\ Len(l) >= 4
    /\ l[3] = d.FQDN
    /\ \/ l[2] = "delete" /\ l[4] = d.RecordType
       \/ l[2] = "add" /\ l[5] = d.RecordType

CommandsFor(d, lines) == SelectSeq(lines, LAMBDA l : IsCommandOf(l, d))

CountLines(cmds, l) == Cardinality({i \in 1..Len(cmds) : cmds[i] = l})

DeletesPrecedeAdds(cmds) ==
    \A i, j \in 1..Len(cmds) : (cmds[i][2] = "add" /\ cmds[j][2] = "delete") => j < i

ListOf(payload) == IF payload.kind = "list" THEN payload.v ELSE <<>>
ValueSet(payload) == {ListOf(payload)[i] : i \in 1..Len(ListOf(payload))}

\* a value with the surrounding blanks removed and the letters in lower case
Folded(str) == [i \in 1..Len(TrimSpace(str)) |-> ToLowerToken(TrimSpace(str)[i])]
InFolded(v, S) == \E w \in S : Folded(w) = Folded(v)

Word(l) == l[1]

\* C16: when generateNSUpdateScripts has returned, every script is a sequence
\* of blocks, one per server and zone: a `server` line, a `zone` line, the
\* update commands of Discrepancies seen on that server in that zone, and
\* one `send` line.
C16_ScriptStructure ==
    scPc = "returned" =>
      \A f \in scFiles :
        LET lines == f.lines
            \* the zone line that opens the block of line i
            Opens(j, i) ==
                /\ j > 1 /\ j < i
                /\ Word(lines[j]) = "zone"
                /\ Word(lines[j - 1]) = "server"
                /\ \A k \in (j + 1)..(i - 1) : Word(lines[k]) = "update"
        IN \A i \in 1..Len(lines) :
              /\ Word(lines[i]) \in {"server", "zone", "update", "send"}
              /\ Word(lines[i]) = "send" =>
                    \E j \in 1..Len(lines) : Opens(j, i)
              /\ Word(lines[i]) = "update" =>
                    \E j \in 1..Len(lines) :
                       /\ Opens(j, i)
                       /\ \E k \in 1..Len(scDiscrepancies) :
                             /\ scDiscrepancies[k].Server = lines[j - 1][2]
                             /\ scDiscrepancies[k].ZoneName = lines[j][2]
                             /\ scDiscrepancies[k].FQDN = lines[i][3]

\* C16 without the preamble: every script holds the update commands of
\* Discrepancies seen on the server of its file name, whatever their zone,
\* and one `send` line, the last
C16_PerServerFiles ==
    scPc = "returned" =>
      \A f \in scFiles :
        /\ Len(f.lines) > 0
        /\ \A i \in 1..Len(f.lines) :
              /\ Word(f.lines[i]) = "send" <=> i = Len(f.lines)
              /\ Word(f.lines[i]) \in {"update", "send"}
              /\ Word(f.lines[i]) = "update" =>
                    \E k \in 1..Len(scDiscrepancies) :
                       /\ scDiscrepancies[k].Server = f.name[2]
                       /\ scDiscrepancies[k].FQDN = f.lines[i][3]

\* the inventory SOA records of the run whose value has not 7 fields and for
\* which validateSOARecord is called (they have authoritative servers)
InvalidSOARecords ==
    {i \in 1..Len(records) :
        /\ ToUpper(records[i].Type) = "SOA"
        /\ Len(Fields(records[i].Value)) # 7
        /\ Len(SOARecordServers(SOAKeyOf(records[i]))) > 0}

\* C17: an inventory SOA value that does not split into exactly 7 fields gets
\* no DNS query at any time; when the run with the SOA path has finished it
\* has exactly one Discrepancy, with message "Invalid SOA record format" and
\* without Expected payload, and no Success, and the script generator has no
\* command for that Discrepancy.
C17_InvalidSOAValue ==
    \A i \in InvalidSOARecords :
       LET r == records[i]
           discs == SelectSeq(discrepancies,
                              LAMBDA d : d.FQDN = r.FQDN /\ d.RecordType = "SOA")
           succs == SelectSeq(successfulValidations,
                              LAMBDA d : d.FQDN = r.FQDN /\ d.RecordType = "SOA")
       IN /\ \A q \in queries : q.key # SOAKeyOf(r)
          /\ (mainPc = "finished" /\ soaValidationMode # "false") =>
                /\ Len(discs) = 1
                /\ discs[1].Message = "Invalid SOA record format"
                /\ discs[1].Expected.kind = "nil"
                /\ DiscrepancyCommands(discs[1]) = <<>>
                /\ Len(succs) = 0

\* a finished run that reported the SOA value of corp.test. as invalid
C17_Witness ==
    /\ mainPc = "finished"
    /\ InvalidSOARecords # {}
    /\ \E k \in 1..Len(discrepancies) :
          /\ discrepancies[k].Message = "Invalid SOA record format"
          /\ discrepancies[k].FQDN = Apex(CorpTest)

\* the units of the per-record path that are validated: the keys of
\* expectedRecords that resolve to servers
Units ==
    {key \in GroupKeys(records, zoneFilter, viewFilter) : Len(RecordServers(key)) > 0}

\* whether a Discrepancy or Success is one of unit key
OfUnit(d, key) ==
    /\ d.FQDN = key.FQDN
    /\ d.RecordType = key.RecordType
    /\ d.ZoneName = key.ZoneName

\* whether every query of unit key has returned
Answered(key) ==
    \/ key.RecordType \notin KnownTypes
    \/ \A i \in 1..Len(RecordServers(key)) :
          \E q \in queries : q.key = key /\ q.server = RecordServers(key)[i]

\* what queryDNSWithRetry returned to unit key for server
AnswerTo(key, server) ==
    (CHOOSE q \in queries : q.key = key /\ q.server = server).qr

\* what validateRecordsForFQDN returns for unit key on what its own queries
\* returned, server by server
OwnResults(key) ==
    LET recs == GroupOf(records, key, zoneFilter, viewFilter)
        srv == RecordServers(key)
    IN IF key.RecordType \notin KnownTypes
       THEN <<[disc |-> <<UnknownTypeDiscrepancy(key, ExpectedValues(key, recs))>>,
               succ |-> <<>>]>>
       ELSE [i \in 1..Len(srv) |->
                ValidateServer(key, ExpectedValues(key, recs), ExpectedTTL(key, recs),
                               srv[i], AnswerTo(key, srv[i]), recordSuccessful)]

OwnDiscrepancies(key) ==
    Flatten([i \in 1..Len(OwnResults(key)) |-> OwnResults(key)[i].disc])

OwnSuccesses(key) ==
    Flatten([i \in 1..Len(OwnResults(key)) |-> OwnResults(key)[i].succ])

\* C19: in the per-record path the results of a unit are what its own
\* queries give, whatever the queries of the other units return and in every
\* interleaving of the tasks: a task that has finished has all of them in the
\* channels, validateAllRecords never waits forever, and it returns them.
C19_PartialResultTolerance ==
    /\ mainPc = "waitRecords" =>
          /\ ENABLED Next
          /\ \A t \in 1..Len(tasks) :
                (tasks[t].pc = "done" /\ tasks[t].key \in Units) =>
                   /\ Answered(tasks[t].key)
                   /\ SelectSeq(discrepanciesChan, LAMBDA d : OfUnit(d, tasks[t].key))
                         = OwnDiscrepancies(tasks[t].key)
                   /\ SelectSeq(successfulChan, LAMBDA d : OfUnit(d, tasks[t].key))
                         = OwnSuccesses(tasks[t].key)
    /\ (mainPc \in {"afterRecords", "waitSOA", "finished"} /\ soaValidationMode # "only") =>
          \A key \in Units :
             /\ Answered(key)
             /\ SelectSeq(discrepancies, LAMBDA d : OfUnit(d, key)) = OwnDiscrepancies(key)
             /\ SelectSeq(successfulValidations, LAMBDA d : OfUnit(d, key))
                   = OwnSuccesses(key)

\* validateAllRecords has returned the Success of one unit and the
\* Discrepancy of another whose queries all failed
C19_Witness ==
    /\ mainPc = "afterRecords"
    /\ \E U, V \in Units :
          /\ U # V
          /\ \E q \in queries : q.key = V /\ q.qr.err /\ q.qr.respNil
          /\ \E q \in queries : q.key = U /\ ~q.qr.err /\ Len(q.qr.answer) > 0
          /\ \E k \in 1..Len(successfulValidations) : OfUnit(successfulValidations[k], U)
          /\ \E k \in 1..Len(discrepancies) :
                /\ OfUnit(discrepancies[k], V)
                /\ discrepancies[k].Message = "DNS query error"

(***************************************************************************)
(* Specification SpecCall: one call of a comparison or conversion function *)
(* on arguments drawn from bounded sets.  callArgs holds the arguments,    *)
(* callResult is <<>> before the call and <<result>> after it.             *)
(***************************************************************************)
MaxListLen == 3      \* values in a list handed to stringSlicesEqualUnordered

CallValues == {<<"192.0.2.10">>, <<"192.0.2.2">>}
CallLists == SeqsUpTo(CallValues, MaxListLen)

\* the key and the grouped inventory records of one unit: www.example.com. A
\* records with or without an explicit TTL, in any order
CallKey == RecordKey(Fqdn("www", ExampleCom), "A", ExampleCom, "default")
CallRecords ==
    {Rec(1, "A", "www", Fqdn("www", ExampleCom), v, t, ExampleCom, "default", 300) :
        v \in CallValues, t \in {0, 600}}
CallGroups == SeqsUpTo(CallRecords, MaxRecords) \ {<<>>}

\* permutations of a list
Perms(list) ==
    {[i \in 1..Len(list) |-> list[p[i]]] : p \in Permutations(1..Len(list))}

\* validateRecordsForFQDN for one server that answered
ServerVerdict(key, recs, answer) ==
    ValidateServer(key, ExpectedValues(key, recs), ExpectedTTL(key, recs), "ns1",
                   Reply("NOERROR", answer), FALSE)

CallInitSlices ==
    /\ callFn = "stringSlicesEqualUnordered"
    /\ callArgs \in [a : CallLists, b : CallLists]

CallInitValidate ==
    /\ callFn = "validateRecordsForFQDN"
    /\ callArgs \in [key : {CallKey}, records : CallGroups, answer : Answers("A")]

CallStringSlicesEqualUnordered ==
    /\ callFn = "stringSlicesEqualUnordered"
    /\ callResult = <<>>
    /\ callResult' = <<stringSlicesEqualUnordered(callArgs.a, callArgs.b)>>
    /\ UNCHANGED <<callFn, callArgs>>
    /\ UNCHANGED notCallVars

CallValidateRecordsForFQDN ==
    /\ callFn = "validateRecordsForFQDN"
    /\ callResult = <<>>
    /\ callResult' = <<ServerVerdict(callArgs.key, callArgs.records, callArgs.answer)>>
    /\ UNCHANGED <<callFn, callArgs>>
    /\ UNCHANGED notCallVars

\* SOA records that differ from one another in any set of fields
CallSOARecords ==
    {SOARecord(<<m>>, <<r>>, serial, refresh, retry, expire, minimum) :
        m \in {"ns1", "ns2"}, r \in {"admin", "root"}, serial \in {1, 2},
        refresh \in {2, 3}, retry \in {3, 4}, expire \in {4, 5}, minimum \in {5, 9}}

CallInitSOA ==
    /\ callFn = "soaRecordsEqual"
    /\ callArgs \in [a : {SOARecord(<<"ns1">>, <<"admin">>, s, 2, 3, 4, 5) : s \in {1, 2}},
                     b : CallSOARecords, ignoreSerial : BOOLEAN]

CallSoaRecordsEqual ==
    /\ callFn = "soaRecordsEqual"
    /\ callResult = <<>>
    /\ callResult' = <<soaRecordsEqual(callArgs.a, callArgs.b, callArgs.ignoreSerial)>>
    /\ UNCHANGED <<callFn, callArgs>>
    /\ UNCHANGED notCallVars

\* inventory values and zone names of the qualification step
CallCnameValues ==
    {<<>>, <<"host">>, <<"host", ".">>, <<"host", ".", "example", ".", "com">>,
     Fqdn("host", ExampleCom)}
CallZoneNames == {EmptyString, <<".">>, ExampleCom, CorpTest, CorpTest \o <<".">>}

CallInitQualify ==
    /\ callFn = "qualify"
    /\ callArgs \in [recordType : {"CNAME", "A"}, value : CallCnameValues,
                     zoneName : CallZoneNames]

\* lines 146-156: the qualification step on an inventory value
CallQualify ==
    /\ callFn = "qualify"
    /\ callResult = <<>>
    /\ callResult' = <<QualifyValue(callArgs.recordType, callArgs.value, callArgs.zoneName)>>
    /\ UNCHANGED <<callFn, callArgs>>
    /\ UNCHANGED notCallVars

\* the step applied to its own output
CallQualifyAgain ==
    /\ callFn = "qualify"
    /\ Len(callResult) = 1
    /\ callResult' = Append(callResult,
                            QualifyValue(callArgs.recordType, callResult[1],
                                         callArgs.zoneName))
    /\ UNCHANGED <<callFn, callArgs>>
    /\ UNCHANGED notCallVars

\* the well-formed inventory SOA record of example.com., without and with
\* an explicit TTL
CallSOAInventory ==
    {InventoryRecords[10], [InventoryRecords[10] EXCEPT !.TTL = 600]}

\* the resource records a server may answer an SOA query with: the inventory's
\* SOA at either TTL, the same with another serial or another refresh value,
\* and a CNAME record (its target in the first field of the value)
CallSOAAnswerRRs ==
    {RR("SOA", soa, t) :
        soa \in {parseSOARecord(InventoryRecords[10]).soa,
                 [parseSOARecord(InventoryRecords[10]).soa EXCEPT !.Serial = 9],
                 [parseSOARecord(InventoryRecords[10]).soa EXCEPT !.Refresh = 9]},
        t \in {300, 600}}
    \cup {RR("CNAME", SOARecord(Fqdn("host", ExampleCom), <<>>, 0, 0, 0, 0, 0), 300)}

\* what queryDNSWithRetry may return for an SOA query
CallSOAQueryResults ==
    {queryDNSWithRetry([i \in 1..Retries |-> AttemptTimeout], Retries),
     queryDNSWithRetry([i \in 1..Retries |-> AttemptMalformedNX], Retries),
     Reply("NXDOMAIN", <<>>)}
    \cup {Reply("NOERROR", answer) : answer \in SeqsUpTo(CallSOAAnswerRRs, MaxAnswerLen)}

CallInitValidateSOA ==
    /\ callFn = "validateSOARecord"
    /\ callArgs \in [record : CallSOAInventory, qr : CallSOAQueryResults,
                     ignoreSerial : BOOLEAN, recordSuccessful : BOOLEAN]

\* soa_validator.go 104-204: one iteration of the server loop
CallValidateSOARecord ==
    /\ callFn = "validateSOARecord"
    /\ callResult = <<>>
    /\ callResult' = <<ValidateSOAServer(callArgs.record,
                                         parseSOARecord(callArgs.record).soa,
                                         SOAExpectedTTL(callArgs.record), "ns1",
                                         callArgs.qr, callArgs.ignoreSerial,
                                         callArgs.recordSuccessful)>>
    /\ UNCHANGED <<callFn, callArgs>>
    /\ UNCHANGED notCallVars

\* what queryDNSWithRetry may return for the A query of a unit
CallQueryResults ==
    {queryDNSWithRetry([i \in 1..Retries |-> AttemptTimeout], Retries),
     queryDNSWithRetry([i \in 1..Retries |-> AttemptMalformedNX], Retries),
     Reply("NXDOMAIN", <<>>), Reply("NOERROR", <<>>)}
    \cup {Reply("NOERROR", answer) : answer \in Answers("A")}

CallInitGenerate ==
    /\ callFn = "generateNSUpdateScripts"
    /\ callArgs \in [key : {CallKey}, records : CallGroups, qr : CallQueryResults]

CallInitGenerateSOA ==
    /\ callFn = "generateNSUpdateScripts (SOA)"
    /\ callArgs \in [record : CallSOAInventory, qr : CallSOAQueryResults,
                     ignoreSerial : BOOLEAN]

\* the commands written for each Discrepancy of a list
CommandsOf(discs) == [k \in 1..Len(discs) |-> DiscrepancyCommands(discs[k])]

\* validator.go 208-330 and nsupdate.go 74-137: the Discrepancies of a unit on
\* one server and the commands the generator writes for them
CallGenerate ==
    /\ callFn = "generateNSUpdateScripts"
    /\ callResult = <<>>
    /\ LET out == ValidateServer(callArgs.key,
                                 ExpectedValues(callArgs.key, callArgs.records),
                                 ExpectedTTL(callArgs.key, callArgs.records), "ns1",
                                 callArgs.qr, FALSE)
       IN callResult' = <<[disc |-> out.disc, lines |-> CommandsOf(out.disc)]>>
    /\ UNCHANGED <<callFn, callArgs>>
    /\ UNCHANGED notCallVars

\* soa_validator.go 104-204 and nsupdate.go 120-132: the same for an SOA record
CallGenerateSOA ==
    /\ callFn = "generateNSUpdateScripts (SOA)"
    /\ callResult = <<>>
    /\ LET out == ValidateSOAServer(callArgs.record,
                                    parseSOARecord(callArgs.record).soa,
                                    SOAExpectedTTL(callArgs.record), "ns1",
                                    callArgs.qr, callArgs.ignoreSerial, FALSE)
       IN callResult' = <<[disc |-> out.disc, lines |-> CommandsOf(out.disc)]>>
    /\ UNCHANGED <<callFn, callArgs>>
    /\ UNCHANGED notCallVars

\* units for the resolution of the expected TTL: the A records of
\* www.example.com. and the NS records at the apex and below it of a zone
\* with an SOA TTL, of one without and of one that zonesByName does not hold,
\* with and without explicit TTL and zone default TTL
CallTTLUnits ==
    {[key |-> CallKey, records |-> g] :
        g \in SeqsUpTo({Rec(1, "A", "www", Fqdn("www", ExampleCom), v, t, ExampleCom,
                            "default", zttl) :
                           v \in CallValues, t \in {0, 600}, zttl \in {0, 300}},
                       MaxRecords) \ {<<>>}}
    \cup
    UNION {{[key |-> RecordKey(Fqdn(name, zone), "NS", zone, "default"), records |-> g] :
              g \in SeqsUpTo({Rec(4, "NS", name, Fqdn(name, zone), Fqdn("ns1", zone), t,
                                  zone, "default", 300) : t \in {0, 600}},
                             MaxRecords) \ {<<>>}} :
           name \in {"@", "sub"}, zone \in {ExampleCom, CorpTest, OrphanTest}}

CallInitExpectedTTL ==
    /\ callFn = "expectedTTL"
    /\ callArgs \in CallTTLUnits

\* validator.go 141-188 and 208-330: the expected TTL of the unit, and the
\* Discrepancies for a server that holds the expected values at that TTL
CallExpectedTTL ==
    /\ callFn = "expectedTTL"
    /\ callResult = <<>>
    /\ callResult' =
          <<[expectedTTL |-> ExpectedTTL(callArgs.key, callArgs.records),
             disc |-> ValidateServer(callArgs.key,
                         ExpectedValues(callArgs.key, callArgs.records),
                         ExpectedTTL(callArgs.key, callArgs.records), "ns1",
                         Reply("NOERROR", InventoryAnswer(callArgs.key, callArgs.records)),
                         FALSE).disc]>>
    /\ UNCHANGED <<callFn, callArgs>>
    /\ UNCHANGED notCallVars

\* answer sections for an A query: address records, some of them with TTL 0,
\* the CNAME a server puts in front of them, and a signature record, which
\* is of none of the kinds of the type switch
CallAnswerRRs ==
    {RR("A", v, t) : v \in CallValues, t \in {0, 300, 600}}
        \cup {RR("CNAME", Fqdn("host", ExampleCom), 300),
              RR("RRSIG", <<"A 13 3 300 (signature)">>, 300)}
CallAnswers == SeqsUpTo(CallAnswerRRs, MaxAnswerLen) \ {<<>>}

CallInitAnswerLoop ==
    /\ callFn = "validateRecordsForFQDN (answer loop)"
    /\ callArgs \in [key : {CallKey}, records : CallGroups, answer : CallAnswers]

\* validateRecordsForFQDN for one server that answered, with successes
\* recorded: the one Discrepancy or ValidationRecord of the server
CallAnswerLoop ==
    /\ callFn = "validateRecordsForFQDN (answer loop)"
    /\ callResult = <<>>
    /\ LET out == ValidateServer(callArgs.key,
                                 ExpectedValues(callArgs.key, callArgs.records),
                                 ExpectedTTL(callArgs.key, callArgs.records), "ns1",
                                 Reply("NOERROR", callArgs.answer), TRUE)
       IN callResult' = <<[disc |-> out.disc, succ |-> out.succ,
                           entry |-> (out.disc \o out.succ)[1]]>>
    /\ UNCHANGED <<callFn, callArgs>>
    /\ UNCHANGED notCallVars

\* single inventory records of corp.test. and what a server may hold for
\* their (name, type): nothing or one record
StrategyRecords ==
    {Rec(7, "A", "app", Fqdn("app", CorpTest), <<"192.0.2.10">>, t, CorpTest,
         "internal", 300) : t \in {0, 600}}
        \cup {Rec(15, "CNAME", "alias", Fqdn("alias", CorpTest), v, 0, CorpTest,
                  "internal", 300) :
                v \in {<<"host">>, Fqdn("host", CorpTest)}}

StrategyServerRRs(type) ==
    IF type = "A"
    THEN {RR("A", v, t) : v \in CallValues, t \in {300, 600}}
    ELSE {RR("CNAME", v, 300) :
            v \in {Fqdn("host", CorpTest), <<"HOST", ".">> \o CorpTest}}

CallInitStrategies ==
    /\ callFn = "validateRecordsForFQDN / compareRecord"
    /\ \E r \in StrategyRecords :
          callArgs \in [record : {r},
                        held : {<<>>} \cup {<<rr>> : rr \in StrategyServerRRs(r.Type)}]

\* the unit of one record validated against ns1 by the per-record path, and
\* the record compared by the task of its zone against a transfer from ns1
\* that holds what the server holds
CallStrategies ==
    /\ callFn = "validateRecordsForFQDN / compareRecord"
    /\ callResult = <<>>
    /\ LET r == callArgs.record
           key == KeyOf(r)
           perRecord == ValidateServer(key, ExpectedValues(key, <<r>>),
                                       ExpectedTTL(key, <<r>>), "ns1",
                                       Reply("NOERROR", callArgs.held), FALSE)
           rrs == [i \in 1..Len(callArgs.held) |->
                      AxfrRR(r.FQDN, callArgs.held[i].kind, callArgs.held[i].value,
                             callArgs.held[i].ttl)]
           bulk == CompareExpected(r, FqdnType(r.FQDN, r.Type), rrs, r.ZoneName,
                                   "ns1", FALSE)
       IN callResult' = <<[perRecord |-> Len(perRecord.disc) > 0,
                           bulk |-> bulk.chan = "discrepancies"]>>
    /\ UNCHANGED <<callFn, callArgs>>
    /\ UNCHANGED notCallVars

CallInit ==
    /\ FqdnIdle /\ RunIdle /\ PtrIdle /\ AxfrIdle /\ ScriptIdle /\ FlagsIdle
    /\ callResult = <<>>
    /\ \/ CallInitSlices
       \/ CallInitValidate
       \/ CallInitSOA
       \/ CallInitQualify
       \/ CallInitValidateSOA
       \/ CallInitGenerate
       \/ CallInitGenerateSOA
       \/ CallInitExpectedTTL
       \/ CallInitAnswerLoop
       \/ CallInitStrategies

CallNext ==
    \/ CallStringSlicesEqualUnordered
    \/ CallValidateRecordsForFQDN
    \/ CallSoaRecordsEqual
    \/ CallQualify
    \/ CallQualifyAgain
    \/ CallValidateSOARecord
    \/ CallGenerate
    \/ CallGenerateSOA
    \/ CallExpectedTTL
    \/ CallAnswerLoop
    \/ CallStrategies

SpecCall == CallInit /\ [][CallNext]_vars

(***************************************************************************)
(* Properties of the comparison and conversion functions (SpecCall).       *)
(***************************************************************************)
SlicesReturned == callFn = "stringSlicesEqualUnordered" /\ callResult # <<>>
ValidateReturned == callFn = "validateRecordsForFQDN" /\ callResult # <<>>

\* the comparison is multiset equality: the same for all permutations of
\* both lists, symmetric, and false for equal element sets with different
\* multiplicities
SlicesIsMultisetEquality ==
    SlicesReturned =>
      LET a == callArgs.a
          b == callArgs.b
      IN /\ callResult[1] = (BagOfSeq(a) = BagOfSeq(b))
         /\ \A pa \in Perms(a), pb \in Perms(b) :
               stringSlicesEqualUnordered(pa, pb) = callResult[1]
         /\ stringSlicesEqualUnordered(b, a) = callResult[1]
         /\ ({a[i] : i \in 1..Len(a)} = {b[i] : i \in 1..Len(b)}
               /\ BagOfSeq(a) # BagOfSeq(b)) => callResult[1] = FALSE

\* whether a verdict is "no Discrepancy"
IsMatch(out) == Len(out.disc) = 0

\* the grouped records resolve to one TTL and the answer records carry one
OneTTL(key, recs, answer) ==
    /\ \A i, j \in 1..Len(recs) : RecordTTL(key, recs[i]) = RecordTTL(key, recs[j])
    /\ \A i, j \in 1..Len(answer) : answer[i].ttl = answer[j].ttl

SoaReturned == callFn = "soaRecordsEqual" /\ callResult # <<>>

\* the six fields other than Serial agree
OtherFieldsEqual(a, b) ==
    \A f \in {"MName", "RName", "Refresh", "Retry", "Expire", "Minimum"} : a[f] = b[f]

\* C12: soaRecordsEqual(a, b, ignoreSerial) is true for records that differ
\* only in Serial when ignoreSerial is set, false for any Serial difference
\* when it is not, false in both modes when any of the six other fields
\* differs, and true for records equal in all seven fields.
C12_SoaRecordsEqual ==
    SoaReturned =>
      LET a == callArgs.a
          b == callArgs.b
      IN /\ (callArgs.ignoreSerial /\ OtherFieldsEqual(a, b)) => callResult[1] = TRUE
         /\ (~callArgs.ignoreSerial /\ a.Serial # b.Serial) => callResult[1] = FALSE
         /\ ~OtherFieldsEqual(a, b) => callResult[1] = FALSE
         /\ a = b => callResult[1] = TRUE

\* two records that differ only in Serial, compared with ignoreSerial set
C12_Witness ==
    /\ SoaReturned
    /\ callArgs.ignoreSerial
    /\ callArgs.a.Serial # callArgs.b.Serial
    /\ OtherFieldsEqual(callArgs.a, callArgs.b)
    /\ callResult[1] = TRUE

QualifyReturned == callFn = "qualify" /\ callResult # <<>>

\* a zone name without its trailing dots
StripDots(z) ==
    LET k == CHOOSE n \in 0..Len(z) :
                 /\ n = 0 \/ z[n] # "."
                 /\ \A j \in (n + 1)..Len(z) : z[j] = "."
    IN SubSeq(z, 1, k)

\* C13: the qualification step leaves a CNAME value that ends with the root
\* label unchanged, turns any other CNAME value v into v.zone. with the zone
\* taken without trailing dots (v. when nothing of the zone is left), leaves
\* values of other types alone, and returns its own output unchanged.
C13_QualificationIdempotent ==
    QualifyReturned =>
      LET v == callArgs.value
          zone == StripDots(callArgs.zoneName)
          absolute == Len(v) > 0 /\ v[Len(v)] = "."
      IN /\ callResult[1] =
               (IF callArgs.recordType # "CNAME" \/ absolute THEN v
                ELSE IF zone = <<>> THEN v \o <<".">>
                ELSE v \o <<".">> \o zone \o <<".">>)
         /\ Len(callResult) = 2 => callResult[2] = callResult[1]

\* an unqualified target in a zone whose name ends with a dot, qualified twice
C13_Witness ==
    /\ QualifyReturned
    /\ callArgs.recordType = "CNAME"
    /\ callArgs.value = <<"host">>
    /\ callArgs.zoneName = CorpTest
    /\ callResult = <<Fqdn("host", CorpTest), Fqdn("host", CorpTest)>>
    /\ Fqdn("host", CorpTest) = <<"host", ".", "corp", ".", "test", ".">>

ValidateSOAReturned == callFn = "validateSOARecord" /\ callResult # <<>>

\* the SOA records of an answer, in order
AnsweredSOAs(answer) == SelectSeq(answer, LAMBDA rr : rr.kind = "SOA")

\* whether an answered SOA record is the expected one: field by field, the
\* serial left out when the flag is set, and in TTL
SOAAsExpected(record, rr, ignoreSerial) ==
    /\ OtherFieldsEqual(parseSOARecord(record).soa, rr.value)
    /\ ignoreSerial \/ parseSOARecord(record).soa.Serial = rr.value.Serial
    /\ rr.ttl = (IF record.TTL > 0 THEN record.TTL ELSE record.ZoneDefaultTTL)

\* the outcome for a server whose query failed, was answered NXDOMAIN or
\* empty, or whose answer has an SOA record
SOAOutcomeOf(record, qr, ignoreSerial, recSucc, out) ==
    /\ (qr.err \/ Len(qr.answer) = 0) => (Len(out.disc) = 1 /\ Len(out.succ) = 0)
    /\ (~qr.err /\ Len(AnsweredSOAs(qr.answer)) > 0) =>
          IF SOAAsExpected(record, AnsweredSOAs(qr.answer)[1], ignoreSerial)
          THEN Len(out.disc) = 0 /\ Len(out.succ) = (IF recSucc THEN 1 ELSE 0)
          ELSE Len(out.disc) = 1 /\ Len(out.succ) = 0
    /\ \A k \in 1..Len(out.disc) : out.disc[k].Server = "ns1"

\* C21: for a well-formed inventory SOA record and a server, validateSOARecord
\* gives exactly one Discrepancy when the query fails, the answer is NXDOMAIN
\* or empty or the answered SOA differs in a field or in TTL, otherwise no
\* Discrepancy and one Success iff Successes are recorded; whatever the kinds
\* of the answer's records, a completed query gets a Discrepancy or a match.
C21_SOAOutcomePerServer ==
    ValidateSOAReturned =>
       /\ SOAOutcomeOf(callArgs.record, callArgs.qr, callArgs.ignoreSerial,
                       callArgs.recordSuccessful, callResult[1])
       /\ callArgs.recordSuccessful =>
             Len(callResult[1].disc) + Len(callResult[1].succ) = 1

\* the outcomes of C21 for query failures, empty answers and answers that
\* hold an SOA record
C21_AnswersWithSOA ==
    ValidateSOAReturned =>
       SOAOutcomeOf(callArgs.record, callArgs.qr, callArgs.ignoreSerial,
                    callArgs.recordSuccessful, callResult[1])


GenerateReturned ==
    callFn \in {"generateNSUpdateScripts", "generateNSUpdateScripts (SOA)"}
    /\ callResult # <<>>

\* the TTL the inventory resolves for the unit of the call: the explicit TTL
\* of its (first) record, else the zone's TTL
CallResolvedTTL ==
    LET r == IF callFn = "generateNSUpdateScripts" THEN callArgs.records[1]
             ELSE callArgs.record
    IN IF r.TTL > 0 THEN r.TTL ELSE r.ZoneDefaultTTL

\* whether every `update add` written for the Discrepancies of the call that
\* satisfy Covered carries the resolved TTL, with the SOA script being the
\* delete of the SOA followed by the add of the 7-field value
AddsCarryResolvedTTL(Covered(_)) ==
    \A k \in 1..Len(callResult[1].disc) :
       LET d == callResult[1].disc[k]
           lines == callResult[1].lines[k]
       IN (d.Expected.kind # "nil" /\ Covered(d)) =>
             /\ \A n \in 1..Len(lines) :
                   lines[n][2] = "add" => lines[n][4] = CallResolvedTTL
             /\ d.RecordType = "SOA" =>
                   lines = <<UpdateDeleteSOA(d.FQDN),
                             UpdateAdd(d.FQDN, CallResolvedTTL, "SOA",
                                       callArgs.record.Value)>>

\* C22: every `update add` of a generated script carries the TTL resolved for
\* its unit from the inventory, for generic types and for SOA, for every
\* Discrepancy with an Expected payload: value/TTL mismatch, empty answer,
\* NXDOMAIN and DNS query error.
C22_AddCarriesResolvedTTL ==
    GenerateReturned => AddsCarryResolvedTTL(LAMBDA d : TRUE)

\* the same for the Discrepancies that record an expected TTL: mismatches of
\* both paths and missing records of the per-record path
C22_MismatchAddCarriesResolvedTTL ==
    GenerateReturned =>
       AddsCarryResolvedTTL(LAMBDA d : \/ d.Message = ""
                                       \/ /\ d.RecordType # "SOA"
                                          /\ d.Message \in {"Record missing",
                                                            "Record missing (NXDOMAIN)"})


ExpectedTTLReturned == callFn = "expectedTTL" /\ callResult # <<>>

\* whether the record is an NS record at the apex of a zone with an SOA TTL
ApexNSWithSoaTTL(key, r) ==
    /\ key.RecordType = "NS" /\ r.Name = "@"
    /\ key.ZoneName \in ZoneNames
    /\ zonesByName(key.ZoneName).SoaTTL > 0

\* explicit TTL, else zone default TTL, else the zone's SOA TTL for an NS
\* record at the apex
TTLDefaultBeforeSoa(key, r) ==
    IF r.TTL > 0 THEN r.TTL
    ELSE IF r.ZoneDefaultTTL > 0 THEN r.ZoneDefaultTTL
         ELSE IF ApexNSWithSoaTTL(key, r) THEN zonesByName(key.ZoneName).SoaTTL ELSE 0

\* explicit TTL, else the zone's SOA TTL for an NS record at the apex, else
\* the zone default TTL
TTLSoaBeforeDefault(key, r) ==
    IF r.TTL > 0 THEN r.TTL
    ELSE IF ApexNSWithSoaTTL(key, r) THEN zonesByName(key.ZoneName).SoaTTL
         ELSE r.ZoneDefaultTTL

RECURSIVE FirstNonZero(_)
FirstNonZero(ttls) ==
    IF Len(ttls) = 0 THEN 0
    ELSE IF Head(ttls) # 0 THEN Head(ttls) ELSE FirstNonZero(Tail(ttls))

\* C23: the TTL of a grouped record is its explicit TTL when set, else the
\* zone default TTL, else for an NS record at the apex the zone's SOA TTL;
\* the unit's expected TTL is the one of the first record of the group, and a
\* disagreement among the records is no Discrepancy by itself.
C23_ExpectedTTLResolution ==
    ExpectedTTLReturned =>
       /\ callResult[1].expectedTTL = TTLDefaultBeforeSoa(callArgs.key, callArgs.records[1])
       /\ callResult[1].disc = <<>>

\* C23 (amended): the TTL of a grouped record is its explicit TTL when set,
\* else for an NS record at the apex the zone's SOA TTL when set, else the
\* zone default TTL; the unit's expected TTL is the first of these that is
\* not 0, and a disagreement among the records is no Discrepancy by itself.
C23_ExpectedTTLSoaFirst ==
    ExpectedTTLReturned =>
       /\ callResult[1].expectedTTL =
             FirstNonZero([i \in 1..Len(callArgs.records) |->
                              TTLSoaBeforeDefault(callArgs.key, callArgs.records[i])])
       /\ callResult[1].disc = <<>>

\* the expected TTL of apex NS records without explicit TTL on the first, in
\* a zone with SOA TTL and zone default TTL, and with a second record that
\* resolves to another TTL
C23_Witness ==
    /\ ExpectedTTLReturned
    /\ callArgs.key.RecordType = "NS"
    /\ callArgs.key.ZoneName = ExampleCom
    /\ Len(callArgs.records) = 2
    /\ callArgs.records[1].Name = "@"
    /\ callArgs.records[1].TTL = 0
    /\ callArgs.records[2].TTL = 600
    /\ callResult[1].expectedTTL = 900

(***************************************************************************)
(* Specification SpecRetry: one call queryDNSWithRetry(fqdn, qtype,        *)
(* server, Retries), exchange by exchange, in each revision of the         *)
(* function the repository holds.  qAttempts[k] is what the k-th Exchange  *)
(* with the server would return; qExchanges is the log of the exchanges    *)
(* made, qSleeps the log of the seconds slept, qResp the (resp, err) pair  *)
(* of the loop.                                                            *)
(***************************************************************************)
\* dnsutils.go with performAXFR and parseTSIGKeyFile, which validator.go calls
CurrentDnsutils == "dnsutils.go"
\* dnsutils.go with queryDNS
OlderDnsutils == "dnsutils.go (queryDNS)"
\* dnsquery.go
Dnsquery == "dnsquery.go"

Revisions == {CurrentDnsutils, OlderDnsutils, Dnsquery}

\* queryDNS(name, qtype, server) of the older dnsutils.go: no message on an
\* Exchange error, and an error with the message on a response code other
\* than success
queryDNS(attempt) ==
    IF attempt.err THEN AttemptTimeout
    ELSE IF attempt.rcode # "NOERROR" THEN [attempt EXCEPT !.err = TRUE]
    ELSE attempt

\* (resp, err) of one pass through the loop body
Exchange(revision, attempt) ==
    IF revision = OlderDnsutils THEN queryDNS(attempt) ELSE attempt

\* time.Sleep after a failed attempt
SleepsAfterFailure(revision) == revision \in {OlderDnsutils, Dnsquery}

RetryInit ==
    /\ FqdnIdle /\ RunIdle /\ PtrIdle /\ AxfrIdle /\ ScriptIdle /\ CallIdle
    /\ useAXFR = FALSE
    /\ validateSOA = "false"
    /\ qRevision \in Revisions
    /\ qAttempts \in AttemptSeqs("A")
    /\ qAttempt = 1
    /\ qExchanges = <<>>
    /\ qResp = AttemptTimeout
    /\ qSleeps = <<>>
    /\ qPc = "loop"

\* resp, err = Exchange; if err == nil { return resp, nil }
RetryExchange ==
    /\ qPc = "loop"
    /\ qAttempt <= Retries
    /\ LET r == Exchange(qRevision, qAttempts[qAttempt])
       IN  /\ qExchanges' = Append(qExchanges, r)
           /\ qResp' = r
           /\ IF ~r.err
              THEN qPc' = "returned" /\ qAttempt' = qAttempt
              ELSE IF SleepsAfterFailure(qRevision)
                   THEN qPc' = "sleep" /\ qAttempt' = qAttempt
                   ELSE qPc' = "loop" /\ qAttempt' = qAttempt + 1
    /\ UNCHANGED <<qRevision, qAttempts, qSleeps, notRetryVars>>

\* time.Sleep(attempt seconds), then the next pass
RetrySleep ==
    /\ qPc = "sleep"
    /\ qSleeps' = Append(qSleeps, qAttempt)
    /\ qAttempt' = qAttempt + 1
    /\ qPc' = "loop"
    /\ UNCHANGED <<qRevision, qAttempts, qExchanges, qResp, notRetryVars>>

\* the return after the loop: (resp, err), and (nil, err) in dnsquery.go
RetryExhausted ==
    /\ qPc = "loop"
    /\ qAttempt > Retries
    /\ qResp' = IF qRevision = Dnsquery THEN AttemptTimeout
                ELSE [qResp EXCEPT !.err = TRUE]
    /\ qPc' = "returned"
    /\ UNCHANGED <<qRevision, qAttempts, qAttempt, qExchanges, qSleeps, notRetryVars>>

RetryNext == RetryExchange \/ RetrySleep \/ RetryExhausted

SpecRetry == RetryInit /\ [][RetryNext]_vars

RetryReturned == qPc = "returned"

\* at most Retries exchanges, each one after a failed one, the first
\* successful one returned without error, an error after Retries failures,
\* and the loop never stuck before its return
BoundedRetries ==
    /\ qPc # "idle" =>
          /\ Len(qExchanges) <= Retries
          /\ \A k \in 1..(Len(qExchanges) - 1) : qExchanges[k].err
          /\ ~RetryReturned => ENABLED RetryNext
    /\ RetryReturned =>
          /\ Len(qExchanges) >= 1
          /\ IF qExchanges[Len(qExchanges)].err
             THEN Len(qExchanges) = Retries /\ qResp.err
             ELSE qResp = qExchanges[Len(qExchanges)] /\ ~qResp.err

\* k seconds are slept after the failed attempt k, before attempt k + 1
LinearBackoff ==
    /\ \A k \in 1..(Len(qExchanges) - 1) : Len(qSleeps) >= k
    /\ \A k \in 1..Len(qSleeps) : qSleeps[k] = k

\* C24: of a call queryDNSWithRetry(..., 3) at most 3 attempts are made,
\* attempt k + 1 only after attempt k failed and after a wait of k seconds,
\* the first successful attempt is returned with no error, 3 failed attempts
\* return an error, and the loop terminates.
C24_RetryPolicy == BoundedRetries /\ LinearBackoff

\* the retry policy without the waits: it holds of every revision
C24_RetryPolicyWithoutBackoff == BoundedRetries

\* the waits of the two revisions that sleep
C24_BackoffOfSleepingRevisions ==
    SleepsAfterFailure(qRevision) => LinearBackoff

(***************************************************************************)
(* The answer loop of validateRecordsForFQDN (SpecCall).                   *)
(***************************************************************************)
AnswerLoopReturned ==
    callFn = "validateRecordsForFQDN (answer loop)" /\ callResult # <<>>

\* one value per answer record, the extracted value for the kinds of the
\* type switch, and the TTL of the first answer record
OneValuePerRecord(answer, entry) ==
    /\ entry.Actual.kind = "list"
    /\ Len(entry.Actual.v) = Len(answer)
    /\ \A i \in 1..Len(answer) :
          answer[i].kind \in ExtractedKinds => entry.Actual.v[i] = answer[i].value
    /\ entry.ActualTTL = answer[1].ttl

\* an answer whose values and first TTL are the expected ones is no
\* Discrepancy, whatever the TTLs of its other records
DifferingTTLsOnlyWarn(key, recs, answer, out) ==
    (/\ stringSlicesEqualUnordered(ExpectedValues(key, recs),
                                   [i \in 1..Len(answer) |-> answer[i].value])
     /\ answer[1].ttl = ExpectedTTL(key, recs))
        => out.disc = <<>>

\* C25: every record of a populated answer contributes exactly one value to
\* the actual value list, so the list is as long as the answer; the actual
\* TTL is the TTL of the first answer record; differing TTLs inside one
\* answer are no Discrepancy.
C25_AnswerReduction ==
    AnswerLoopReturned =>
       /\ OneValuePerRecord(callArgs.answer, callResult[1].entry)
       /\ DifferingTTLsOnlyWarn(callArgs.key, callArgs.records, callArgs.answer,
                                callResult[1])

\* the same for answers that hold only kinds of the type switch and whose
\* first record has a TTL other than 0
C25_ExtractedKindsReduction ==
    (/\ AnswerLoopReturned
     /\ \A i \in 1..Len(callArgs.answer) : callArgs.answer[i].kind \in ExtractedKinds
     /\ callArgs.answer[1].ttl # 0)
       => /\ OneValuePerRecord(callArgs.answer, callResult[1].entry)
          /\ DifferingTTLsOnlyWarn(callArgs.key, callArgs.records, callArgs.answer,
                                   callResult[1])

(***************************************************************************)
(* The generated commands applied to a server (SpecScript).  The record    *)
(* set of one name and type is a set of (value, ttl) records; a delete of  *)
(* a value removes it if present, a delete without value removes the whole *)
(* set, an add inserts the value at its TTL if the value is absent.        *)
(***************************************************************************)
ServerRecord(value, ttl) == [value |-> value, ttl |-> ttl]

ApplyCommand(l, rs) ==
    IF l[2] = "delete"
    THEN IF Len(l) = 4 THEN {} ELSE {r \in rs : r.value # l[5]}
    ELSE IF \E r \in rs : r.value = l[6] THEN rs
         ELSE rs \cup {ServerRecord(l[6], l[4])}

RECURSIVE ApplyScript(_, _, _)
ApplyScript(cmds, i, rs) ==
    IF i > Len(cmds) THEN rs ELSE ApplyScript(cmds, i + 1, ApplyCommand(cmds[i], rs))

LinesOf(prefix, server) ==
    IF ScriptOf(prefix, server) = {} THEN <<>>
    ELSE (CHOOSE f \in ScriptOf(prefix, server) : TRUE).lines

\* the update commands written for the record set of d, in file order
EmittedCommands(d) ==
    CommandsFor(d, LinesOf("nsupdate_records", d.Server))
        \o CommandsFor(d, LinesOf("nsupdate_ttls", d.Server))

\* the record set the Actual snapshot of d describes
ActualRecordSet(d) ==
    {ServerRecord(d.Actual.v[i], d.ActualTTL) : i \in 1..Len(d.Actual.v)}

RECURSIVE ValuesOf(_)
\* the values of a record set as a list
ValuesOf(rs) ==
    IF rs = {} THEN <<>>
    ELSE LET r == CHOOSE x \in rs : TRUE IN <<r.value>> \o ValuesOf(rs \ {r})

\* Discrepancies of the five list types with both snapshots, whose script
\* file could be created
WithSnapshots(d) ==
    /\ d.RecordType \in AddressTypes
    /\ d.Expected.kind = "list" /\ d.Actual.kind = "list"
    /\ d.Server \notin scCreateFails

Converged(d) ==
    LET rs == ApplyScript(EmittedCommands(d), 1, ActualRecordSet(d))
    IN /\ stringSlicesEqualUnordered(d.Expected.v, ValuesOf(rs))
       /\ \A r \in rs : r.ttl = d.ExpectedTTL

\* the server record sets of www.example.com. A
ServerRecordSets ==
    SUBSET {ServerRecord(v, t) : v \in ScriptValues, t \in ObservedTTLs}

\* applying the commands of a Discrepancy twice leaves what applying them
\* once leaves, from every server record set
ScriptIdempotent ==
    scPc = "returned" =>
      \A k \in 1..Len(scDiscrepancies), rs \in ServerRecordSets :
         LET cmds == EmittedCommands(scDiscrepancies[k])
             once == ApplyScript(cmds, 1, rs)
         IN ApplyScript(cmds, 1, once) = once

\* C27: for every Discrepancy of type A, AAAA, CNAME, PTR or NS with Expected
\* and Actual snapshots, the emitted commands applied in order to the record
\* set Actual describes (its values at ActualTTL) yield a record set whose
\* values equal Expected under stringSlicesEqualUnordered and all of whose
\* records have ExpectedTTL.
C27_ScriptConvergence ==
    scPc = "returned" =>
      \A k \in 1..Len(scDiscrepancies) :
         WithSnapshots(scDiscrepancies[k]) => Converged(scDiscrepancies[k])

NoRepeatedValue(list) == \A i, j \in 1..Len(list) : list[i] = list[j] => i = j

\* the same for the Discrepancies whose lists name no value twice and which
\* either differ in the TTL only or agree in the TTL and hold no two values
\* that differ in letter case or blanks only
C27_ConvergenceOfPureMismatches ==
    scPc = "returned" =>
      \A k \in 1..Len(scDiscrepancies) :
         LET d == scDiscrepancies[k]
         IN (/\ WithSnapshots(d)
             /\ NoRepeatedValue(d.Expected.v) /\ NoRepeatedValue(d.Actual.v)
             /\ \/ stringSlicesEqualUnordered(d.Expected.v, d.Actual.v)
                \/ /\ d.ExpectedTTL = d.ActualTTL
                   /\ \A v \in ValueSet(d.Expected), w \in ValueSet(d.Actual) :
                         Folded(v) = Folded(w) => v = w)
            => Converged(d)

(***************************************************************************)
(* Fan-in of validateAllRecords (Spec).                                    *)
(***************************************************************************)
\* what the tasks of the units got from validateRecordsForFQDN, task by task
ProducedDiscrepancies ==
    Flatten([t \in 1..Len(tasks) |->
               IF tasks[t].key \in Units THEN OwnDiscrepancies(tasks[t].key) ELSE <<>>])

ProducedSuccesses ==
    Flatten([t \in 1..Len(tasks) |->
               IF tasks[t].key \in Units THEN OwnSuccesses(tasks[t].key) ELSE <<>>])

\* the results the tasks still hold
UnsentDiscrepancies == Flatten([t \in 1..Len(tasks) |-> tasks[t].disc])
UnsentSuccesses == Flatten([t \in 1..Len(tasks) |-> tasks[t].succ])

\* C28: in every interleaving of the tasks of validateAllRecords the
\* returned Discrepancies and Successes are the multiset union of what the
\* tasks' validateRecordsForFQDN calls produced; the channels are closed only
\* when every task has sent all it had and ended, so none sends afterwards;
\* and the results in a channel and still to be sent never exceed the
\* capacity len(records)*len(servers), so no send finds its channel full.
C28_FanInCompleteness ==
    /\ mainPc = "waitRecords" =>
          /\ Len(discrepanciesChan) + Len(UnsentDiscrepancies) <= ChanCapacity(records)
          /\ Len(successfulChan) + Len(UnsentSuccesses) <= ChanCapacity(records)
          /\ \A t \in 1..Len(tasks) :
                (tasks[t].pc = "send" /\ Len(tasks[t].disc) > 0)
                    => Len(discrepanciesChan) < ChanCapacity(records)
    /\ (mainPc = "afterRecords" /\ soaValidationMode # "only") =>
          /\ \A t \in 1..Len(tasks) :
                tasks[t].pc = "done" /\ tasks[t].disc = <<>> /\ tasks[t].succ = <<>>
          /\ \A key \in Units : Answered(key)
          /\ BagOfSeq(discrepancies) = BagOfSeq(ProducedDiscrepancies)
          /\ BagOfSeq(successfulValidations) = BagOfSeq(ProducedSuccesses)

\* validateAllRecords has returned the results of two units whose tasks sent
\* them in the order opposite to the one the tasks were started in
C28_Witness ==
    /\ mainPc = "afterRecords"
    /\ Len(tasks) = 2
    /\ Len(discrepancies) >= 2
    /\ OfUnit(discrepancies[1], tasks[2].key)
    /\ OfUnit(discrepancies[Len(discrepancies)], tasks[1].key)
    /\ ~OfUnit(discrepancies[1], tasks[1].key)

(***************************************************************************)
(* Zone scoping of the bulk path (SpecAXFR).                               *)
(***************************************************************************)
\* the Discrepancies and Successes validateAllRecordsAXFR returned
AxfrReturned == axDiscrepancies \o axSuccessful

\* the returned results for the (FQDN, type) key of an inventory record
ResultsFor(r) ==
    SelectSeq(AxfrReturned,
              LAMBDA d : FqdnType(d.FQDN, d.RecordType) = FqdnType(r.FQDN, r.Type))

\* the inventory records a result may stand for
RecordsOf(d) ==
    {i \in 1..Len(axRecords) :
        FqdnType(axRecords[i].FQDN, axRecords[i].Type) = FqdnType(d.FQDN, d.RecordType)}

\* C29: in validateAllRecordsAXFR the task of zone Z produces a Discrepancy
\* or Success only for inventory records owned by Z, never for a record of
\* another zone, a child zone whose name ends with Z's name included, so an
\* inventory record has at most one result in the whole run.
C29_BulkZoneScoping ==
    axMain = "returned" =>
      /\ \A k \in 1..Len(AxfrReturned) :
            \E i \in RecordsOf(AxfrReturned[k]) :
               axRecords[i].ZoneName = AxfrReturned[k].ZoneName
      /\ \A i \in 1..Len(axRecords) : Len(ResultsFor(axRecords[i])) <= 1

\* what the suffix test gives: the task of zone Z produces results only for
\* records whose FQDN ends with Z's name, at most one per key
C29_ScopingBySuffix ==
    axMain = "returned" =>
      /\ \A k \in 1..Len(AxfrReturned) :
            \E i \in RecordsOf(AxfrReturned[k]) :
               HasSuffix(axRecords[i].FQDN, AxfrReturned[k].ZoneName)
      /\ \A i \in 1..Len(axRecords) : Len(ResultsFor(axRecords[i])) <= 1

(***************************************************************************)
(* The two validation strategies on one record (SpecCall).                 *)
(***************************************************************************)
StrategiesReturned ==
    callFn = "validateRecordsForFQDN / compareRecord" /\ callResult # <<>>

\* C30: for a unit of a single inventory record of type A, AAAA, CNAME, NS
\* or PTR and a server that holds at most one record for its name and type,
\* the bulk path reports a Discrepancy for the record iff the per-record
\* path reports one for the unit on that server.
C30_StrategiesAgree ==
    StrategiesReturned => callResult[1].bulk = callResult[1].perRecord

\* the same for records without an explicit TTL whose value is fully
\* qualified and, if the server holds a record, written in the same letter
\* case as the server's
C30_StrategiesAgreeOnPlainRecords ==
    (/\ StrategiesReturned
     /\ callArgs.record.TTL = 0
     /\ QualifyValue(callArgs.record.Type, callArgs.record.Value,
                     callArgs.record.ZoneName) = callArgs.record.Value
     /\ \A i \in 1..Len(callArgs.held) :
           EqualFold(callArgs.record.Value, callArgs.held[i].value)
               => callArgs.record.Value = callArgs.held[i].value)
        => callResult[1].bulk = callResult[1].perRecord


====
